---- MODULE Spec2Model ----
(***************************************************************************)
(* Roulette simulator (QuickInvoice): the prize configuration operations   *)
(* and the simulation engine (single spins, batches of spins, breaks),     *)
(* modelled from the hooks, the service functions and the page component.  *)
(*                                                                         *)
(* Money is kept in whole currency units.  JavaScript objects are records; *)
(* an optional field that is absent in the code is absent in the record.   *)
(***************************************************************************)
EXTENDS Integers, Sequences, FiniteSets, TLC

VARIABLES
    variant,        \* "hook": SimulationProvider + hooks; "page": app/page.tsx
    totalSlots,     \* useState(25)
    costPerSpin,    \* useState(25)
    defaultPrize,   \* useState(10)
    commissionFee,  \* useState(0)
    prizeConfigs,   \* usePrizeConfigurations: the ordered prize list
    newPrizeName,   \* usePrizeConfigurations: input for a new prize
    newPrizeValue,
    newPrizeSlots,
    error,          \* usePrizeConfigurations: error state (Null when none)
    ret,            \* return value of the last boolean configuration handler
    houseStats,     \* useSimulation / page: running house statistics
    spinHistory,    \* useSimulation / page: retained spin history
    rb,             \* the frame of a runBreaks call in progress (pc = "idle" when none)
    breakLog,       \* history variable: spins and profit of every break run since the last reset
    simulationStats,\* useSimulation / page: the result of the last simulation (NullStats when none)
    simulationMode, \* useSimulation: "normal" or "removeHitSlots"
    hitSlots,       \* useSimulation / page: hit slots of the Remove Hit Slots mode
    pending         \* state updates queued by handlers of the hook since the last render
                    \* (NothingPending when the component has rendered them)

configVars == <<totalSlots, costPerSpin, defaultPrize, commissionFee, prizeConfigs>>
inputVars  == <<newPrizeName, newPrizeValue, newPrizeSlots>>
modeVars   == <<simulationMode, pending>>
simVars    == <<houseStats, spinHistory, rb, breakLog, simulationStats, hitSlots, modeVars>>
vars == <<variant, totalSlots, costPerSpin, defaultPrize, commissionFee, prizeConfigs,
          newPrizeName, newPrizeValue, newPrizeSlots, error, ret,
          houseStats, spinHistory, rb, breakLog,
          simulationStats, simulationMode, hitSlots, pending>>

----------------------------------------------------------------------------
(* Bounds of the model *)

\* prizes are added while the list holds fewer than MaxPrizes prizes
MaxPrizes == 2
\* runBreaks is called while the breaks run since the last reset stay within MaxBreaks
MaxBreaks == 2
\* Normal-mode spins are made while totalSpins stays within MaxSpins
MaxSpins == 3
\* the same two bounds for the long runs on the default wheel of 25 slots, which
\* fill the spin history and run more breaks than runBreaks keeps in full
MaxVolumeBreaks == 6
MaxVolumeSpins == 510

(* Program constants *)
DefaultTotalSlots == 25
DefaultCostPerSpin == 25
DefaultDefaultPrize == 10
DefaultNewPrizeValue == 20
DefaultNewPrizeSlots == 1
\* the spin history keeps the last 500 entries
HistoryCap == 500
\* a batch of spins keeps the entries of its last 100 spins
BatchHistoryLimit == 100
\* runBreaks keeps every spin of a run of at most 5 breaks
FewBreaksLimit == 5

Null == "null"

\* null as the value of simulationStats, and the empty queue of state updates
NullStats == [null |-> TRUE]
NothingPending == [updates |-> 0]

\* the bounds that apply to the wheel at hand
SpinBound == IF totalSlots = DefaultTotalSlots THEN MaxVolumeSpins ELSE MaxSpins
BreakBound == IF totalSlots = DefaultTotalSlots THEN MaxVolumeBreaks ELSE MaxBreaks

\* const DEFAULT_PRIZE_CONFIGS
DEFAULT_PRIZE_CONFIGS ==
    << [id |-> "prize1", name |-> "Prize X", unitCost |-> 50, slots |-> 1, stopWhenHit |-> TRUE],
       [id |-> "prize2", name |-> "Prize Z", unitCost |-> 30, slots |-> 3, stopWhenHit |-> TRUE] >>

\* page.tsx: the initial value of prizeConfigs
PAGE_PRIZE_CONFIGS ==
    << [id |-> "prize1", name |-> "Prize X", unitCost |-> 50, slots |-> 1],
       [id |-> "prize2", name |-> "Prize Z", unitCost |-> 30, slots |-> 3] >>

----------------------------------------------------------------------------
(* Helpers for arrays *)

RECURSIVE SumSlotsFrom(_, _)
SumSlotsFrom(configs, i) ==
    IF i > Len(configs) THEN 0 ELSE configs[i].slots + SumSlotsFrom(configs, i + 1)

\* prizeConfigs.reduce((total, prize) => total + prize.slots, 0)
UsedSlots(configs) == SumSlotsFrom(configs, 1)

\* array.filter(pred) for the predicate "id differs from the given one"
RECURSIVE FilterOutId(_, _)
FilterOutId(configs, id) ==
    IF configs = <<>> THEN <<>>
    ELSE IF Head(configs).id # id
         THEN <<Head(configs)>> \o FilterOutId(Tail(configs), id)
         ELSE FilterOutId(Tail(configs), id)

\* array.findIndex(p => p.id === id), 1-based; 0 when there is none (-1 in the code)
FindIndexById(configs, id) ==
    IF \E i \in 1..Len(configs) : configs[i].id = id
    THEN CHOOSE i \in 1..Len(configs) :
            /\ configs[i].id = id
            /\ \A j \in 1..(i - 1) : configs[j].id # id
    ELSE 0

\* { ...a, ...b }
Spread(a, b) ==
    [f \in (DOMAIN a) \cup (DOMAIN b) |-> IF f \in DOMAIN b THEN b[f] ELSE a[f]]

----------------------------------------------------------------------------
(* PrizeResolver: determinePrizeHit, first variant of simulationService.ts *)

RECURSIVE DeterminePrizeHitLoop(_, _, _, _, _)
DeterminePrizeHitLoop(i, slotsSoFar, slotNumber, configs, dflt) ==
    IF i > Len(configs)
    THEN [prizeType |-> "Default Prize", prize |-> dflt, profit |-> 0,
          isSpecialPrize |-> FALSE]
    ELSE LET config == configs[i]
             configUpperBound == slotsSoFar + config.slots
         IN  IF slotNumber > slotsSoFar /\ slotNumber <= configUpperBound
             THEN [prizeType |-> config.name, prize |-> config.unitCost, profit |-> 0,
                   isSpecialPrize |-> TRUE, prizeIndex |-> i - 1]
             ELSE DeterminePrizeHitLoop(i + 1, configUpperBound, slotNumber, configs, dflt)

\* the resolver with slotsSoFar initialised to 1 instead of 0
DeterminePrizeHitFromOne(slotNumber, configs, dflt) ==
    DeterminePrizeHitLoop(1, 1, slotNumber, configs, dflt)

DeterminePrizeHit(slotNumber, configs, dflt) ==
    DeterminePrizeHitLoop(1, 0, slotNumber, configs, dflt)

(* determinePrizeHit, second variant of simulationService.ts (and the page's) *)

RECURSIVE DeterminePrizeHit2Loop(_, _, _, _, _)
DeterminePrizeHit2Loop(i, slotCounter, slotNumber, configs, dflt) ==
    IF i > Len(configs)
    THEN [prizeType |-> "Default Prize", prize |-> dflt, isSpecialPrize |-> FALSE,
          relativeSlotIndex |-> slotNumber - slotCounter]
    ELSE LET prizeConfig == configs[i]
             startSlot == slotCounter + 1
             endSlot == slotCounter + prizeConfig.slots
         IN  IF slotNumber >= startSlot /\ slotNumber <= endSlot
             THEN [prizeType |-> prizeConfig.name, prize |-> prizeConfig.unitCost,
                   isSpecialPrize |-> TRUE, prizeIndex |-> i - 1,
                   relativeSlotIndex |-> slotNumber - startSlot]
             ELSE DeterminePrizeHit2Loop(i + 1, slotCounter + prizeConfig.slots,
                                         slotNumber, configs, dflt)

DeterminePrizeHit2(slotNumber, configs, dflt) ==
    DeterminePrizeHit2Loop(1, 0, slotNumber, configs, dflt)

----------------------------------------------------------------------------
(* Validation utilities: each returns Null, or the message of the Error it throws *)

\* String.prototype.trim on the names the model enters
Trim(s) ==
    CASE s = " " -> ""
      [] OTHER -> s

ValidateNotEmpty(value, fieldName) ==
    IF value = "" \/ Trim(value) = ""
    THEN fieldName \o " cannot be empty"
    ELSE Null

ValidatePositiveNumber(value, fieldName) ==
    IF value <= 0
    THEN fieldName \o " must be a positive number"
    ELSE Null

\* the capacity check with the limit off by one
ValidateSlotsOffByOne(slots, availableSlots) ==
    IF slots > availableSlots + 1
    THEN "Cannot allocate more than " \o ToString(availableSlots) \o " slots"
    ELSE Null

ValidateSlots(slots, availableSlots) ==
    IF slots > availableSlots
    THEN "Cannot allocate more than " \o ToString(availableSlots) \o " slots"
    ELSE Null

\* the message of the first statement of a try block that throws, Null when none does
RECURSIVE FirstThrown(_)
FirstThrown(checks) ==
    IF checks = <<>> THEN Null
    ELSE IF Head(checks) # Null THEN Head(checks)
         ELSE FirstThrown(Tail(checks))

----------------------------------------------------------------------------
(* Inputs of the configuration operations *)

NameChoices == {"", " ", "A"}
ValueChoices == {0, 20}
SlotChoices == {0, 1, 2}
\* timestamps Date.now() may return while a prize is added
ClockChoices == {1, 2}
\* texts typed in the "Total Number of Slots" input
SlotTexts == {"", "0", "2", "3"}

\* texts typed in the "Commission Fee" input
CommissionTexts == {"", "-1", "20", "101"}

\* parseInt on the texts above: NaN for the empty text
ParseInt(text) ==
    CASE text = "0" -> [isNaN |-> FALSE, value |-> 0]
      [] text = "-1" -> [isNaN |-> FALSE, value |-> -1]
      [] text = "20" -> [isNaN |-> FALSE, value |-> 20]
      [] text = "101" -> [isNaN |-> FALSE, value |-> 101]
      [] text = "2" -> [isNaN |-> FALSE, value |-> 2]
      [] text = "3" -> [isNaN |-> FALSE, value |-> 3]
      [] OTHER -> [isNaN |-> TRUE, value |-> 0]

\* Partial<PrizeConfig> values handed to updatePrizeConfig
PatchChoices ==
    { [slots |-> 2], [slots |-> 0], [name |-> ""], [unitCost |-> 0] }

\* ids a handler may be called with: those of the listed prizes, and one of no prize
IdChoices == {prizeConfigs[i].id : i \in 1..Len(prizeConfigs)} \cup {"missing"}

----------------------------------------------------------------------------
(* State after construction *)

\* prizeDistribution: {}
EmptyDistribution == [k \in {} |-> 0]

\* useSimulation: the initial value of houseStats; the shortTermRisk and the four
\* break probabilities, which start at 0, are not kept in the record (the values
\* that the handlers store in them are operators of the state)
InitialHouseStats ==
    [totalEarnings |-> 0, totalSpins |-> 0, totalBreaks |-> 0,
     prizeDistribution |-> EmptyDistribution,
     worstBreak |-> [spins |-> 0, profit |-> 0],
     bestBreak |-> [spins |-> 0, profit |-> 0]]

\* page.tsx: the initial value of houseStats (it has no totalBreaks)
PageInitialHouseStats ==
    [totalEarnings |-> 0, totalSpins |-> 0,
     prizeDistribution |-> EmptyDistribution,
     worstBreak |-> [spins |-> 0, profit |-> 0],
     bestBreak |-> [spins |-> 0, profit |-> 0]]

\* statistics that keep a break
InitialHouseStatsWithBreak ==
    [InitialHouseStats EXCEPT !.totalBreaks = 1]

\* useSimulation.clearHistory: the value it passes to setHouseStats
ClearedHouseStats ==
    [totalEarnings |-> 0, totalSpins |-> 0, totalBreaks |-> 0,
     prizeDistribution |-> EmptyDistribution,
     worstBreak |-> [spins |-> 0, profit |-> 0],
     bestBreak |-> [spins |-> 0, profit |-> 0]]

IdleFrame == [pc |-> "idle"]

InitCommon ==
    /\ newPrizeName = ""
    /\ newPrizeValue = DefaultNewPrizeValue
    /\ newPrizeSlots = DefaultNewPrizeSlots
    /\ error = Null
    /\ ret = Null
    /\ houseStats = IF variant = "page" THEN PageInitialHouseStats ELSE InitialHouseStats
    /\ spinHistory = <<>>
    /\ rb = IdleFrame
    /\ breakLog = <<>>
    /\ simulationStats = NullStats
    /\ simulationMode = "normal"
    /\ hitSlots = <<>>
    /\ pending = NothingPending

InitConfig ==
    /\ variant \in {"hook", "page"}
    /\ totalSlots = DefaultTotalSlots
    /\ costPerSpin = DefaultCostPerSpin
    /\ defaultPrize = DefaultDefaultPrize
    /\ commissionFee = 0
    /\ prizeConfigs = IF variant = "page" THEN PAGE_PRIZE_CONFIGS
                      ELSE DEFAULT_PRIZE_CONFIGS
    /\ InitCommon

----------------------------------------------------------------------------
(* usePrizeConfigurations: setters of the new-prize inputs *)

SetNewPrizeName(name) ==
    /\ rb.pc = "idle"
    /\ newPrizeName' = name
    /\ UNCHANGED <<variant, configVars, newPrizeValue, newPrizeSlots, error, ret, simVars>>

SetNewPrizeValue(value) ==
    /\ rb.pc = "idle"
    /\ newPrizeValue' = value
    /\ UNCHANGED <<variant, configVars, newPrizeName, newPrizeSlots, error, ret, simVars>>

SetNewPrizeSlots(slots) ==
    /\ rb.pc = "idle"
    /\ newPrizeSlots' = slots
    /\ UNCHANGED <<variant, configVars, newPrizeName, newPrizeValue, error, ret, simVars>>

(* usePrizeConfigurations.addPrizeConfig *)

AddPrizeConfigError ==
    FirstThrown(<< ValidateNotEmpty(Trim(newPrizeName), "Prize name"),
                   ValidatePositiveNumber(newPrizeSlots, "Number of slots"),
                   ValidatePositiveNumber(newPrizeValue, "Prize value"),
                   ValidateSlots(UsedSlots(prizeConfigs) + newPrizeSlots, totalSlots) >>)

\* what the call leaves in the state it writes, and what it returns
AddPrizeConfigOutcome(clock) ==
    IF AddPrizeConfigError = Null
    THEN [prizeConfigs |-> Append(prizeConfigs,
                                  [id |-> "prize_" \o ToString(clock),
                                   name |-> newPrizeName,
                                   unitCost |-> newPrizeValue,
                                   slots |-> newPrizeSlots,
                                   stopWhenHit |-> TRUE]),
          newPrizeName |-> "",
          newPrizeValue |-> DefaultNewPrizeValue,
          newPrizeSlots |-> DefaultNewPrizeSlots,
          error |-> Null,
          ret |-> TRUE]
    ELSE [prizeConfigs |-> prizeConfigs,
          newPrizeName |-> newPrizeName,
          newPrizeValue |-> newPrizeValue,
          newPrizeSlots |-> newPrizeSlots,
          error |-> AddPrizeConfigError,
          ret |-> FALSE]

AddPrizeConfig(clock) ==
    /\ rb.pc = "idle"
    /\ variant = "hook"
    /\ Len(prizeConfigs) < MaxPrizes
    /\ LET out == AddPrizeConfigOutcome(clock)
       IN  /\ prizeConfigs' = out.prizeConfigs
           /\ newPrizeName' = out.newPrizeName
           /\ newPrizeValue' = out.newPrizeValue
           /\ newPrizeSlots' = out.newPrizeSlots
           /\ error' = out.error
           /\ ret' = out.ret
    /\ UNCHANGED <<variant, totalSlots, costPerSpin, defaultPrize, commissionFee, simVars>>

(* page.tsx addPrizeConfig: an input that fails a test is answered with an alert *)

PageAddPrizeConfig ==
    /\ rb.pc = "idle"
    /\ variant = "page"
    /\ Len(prizeConfigs) < MaxPrizes
    /\ IF \/ Trim(newPrizeName) = ""
          \/ newPrizeSlots <= 0
          \/ newPrizeValue <= 0
          \/ UsedSlots(prizeConfigs) + newPrizeSlots > totalSlots
       THEN UNCHANGED <<prizeConfigs, inputVars>>
       ELSE /\ prizeConfigs' =
                  Append(prizeConfigs,
                         [id |-> "prize" \o ToString(Len(prizeConfigs) + 1),
                          name |-> newPrizeName,
                          unitCost |-> newPrizeValue,
                          slots |-> newPrizeSlots])
            /\ newPrizeName' = ""
            /\ newPrizeValue' = DefaultNewPrizeValue
            /\ newPrizeSlots' = DefaultNewPrizeSlots
    /\ UNCHANGED <<variant, totalSlots, costPerSpin, defaultPrize, commissionFee,
                   error, ret, simVars>>

(* usePrizeConfigurations.removePrizeConfig, and the page's *)

RemovePrizeConfig(id) ==
    /\ rb.pc = "idle"
    /\ prizeConfigs' = FilterOutId(prizeConfigs, id)
    /\ UNCHANGED <<variant, totalSlots, costPerSpin, defaultPrize, commissionFee,
                   inputVars, error, ret, simVars>>

(* usePrizeConfigurations.toggleStopWhenHit *)

ToggleStopWhenHit(id) ==
    /\ rb.pc = "idle"
    /\ variant = "hook"
    /\ LET index == FindIndexById(prizeConfigs, id)
       IN  IF index # 0
           THEN prizeConfigs' =
                   [prizeConfigs EXCEPT ![index] =
                       Spread(@, [stopWhenHit |-> ~prizeConfigs[index].stopWhenHit])]
           ELSE UNCHANGED prizeConfigs
    /\ UNCHANGED <<variant, totalSlots, costPerSpin, defaultPrize, commissionFee,
                   inputVars, error, ret, simVars>>

(* usePrizeConfigurations.resetToDefault *)

ResetToDefault ==
    /\ rb.pc = "idle"
    /\ variant = "hook"
    /\ prizeConfigs' = DEFAULT_PRIZE_CONFIGS
    /\ error' = Null
    /\ UNCHANGED <<variant, totalSlots, costPerSpin, defaultPrize, commissionFee,
                   inputVars, ret, simVars>>

(* usePrizeConfigurations.updatePrizeConfig *)

UpdatePrizeConfigError(id, updatedConfig) ==
    LET configIndex == FindIndexById(prizeConfigs, id)
    IN  IF configIndex = 0
        THEN "Prize configuration with ID " \o id \o " not found"
        ELSE LET otherSlots == UsedSlots(prizeConfigs) - prizeConfigs[configIndex].slots
                 newConfig == Spread(prizeConfigs[configIndex], updatedConfig)
             IN  FirstThrown(<<
                     IF "slots" \in DOMAIN updatedConfig
                     THEN ValidateSlots(otherSlots + updatedConfig.slots, totalSlots)
                     ELSE Null,
                     ValidateNotEmpty(newConfig.name, "Prize name"),
                     ValidatePositiveNumber(newConfig.unitCost, "Prize value"),
                     ValidatePositiveNumber(newConfig.slots, "Number of slots") >>)

\* what the call leaves in the state it writes, and what it returns
UpdatePrizeConfigOutcome(id, updatedConfig) ==
    IF UpdatePrizeConfigError(id, updatedConfig) = Null
    THEN [prizeConfigs |-> [prizeConfigs EXCEPT ![FindIndexById(prizeConfigs, id)] =
                               Spread(@, updatedConfig)],
          error |-> error,
          ret |-> TRUE]
    ELSE [prizeConfigs |-> prizeConfigs,
          error |-> UpdatePrizeConfigError(id, updatedConfig),
          ret |-> FALSE]

UpdatePrizeConfig(id, updatedConfig) ==
    /\ rb.pc = "idle"
    /\ variant = "hook"
    /\ LET out == UpdatePrizeConfigOutcome(id, updatedConfig)
       IN  /\ prizeConfigs' = out.prizeConfigs
           /\ error' = out.error
           /\ ret' = out.ret
    /\ UNCHANGED <<variant, totalSlots, costPerSpin, defaultPrize, commissionFee,
                   inputVars, simVars>>

(* GameParameters.handleTotalSlotsChange *)

HandleTotalSlotsChange(text) ==
    /\ rb.pc = "idle"
    /\ LET value == ParseInt(text)
       IN  IF ~value.isNaN /\ value.value > 0
           THEN totalSlots' = value.value
           ELSE UNCHANGED totalSlots
    /\ UNCHANGED <<variant, costPerSpin, defaultPrize, commissionFee, prizeConfigs,
                   inputVars, error, ret, simVars>>

(* GameParameters.handleCommissionFeeChange *)

HandleCommissionFeeChange(text) ==
    /\ rb.pc = "idle"
    /\ LET value == ParseInt(text)
       IN  IF ~value.isNaN /\ value.value >= 0 /\ value.value <= 100
           THEN commissionFee' = value.value
           ELSE UNCHANGED commissionFee
    /\ UNCHANGED <<variant, totalSlots, costPerSpin, defaultPrize, prizeConfigs,
                   inputVars, error, ret, simVars>>

(* configurationService.loadConfiguration: conversion of a stored prize record *)

TruthyNum(r, f) == f \in DOMAIN r /\ r[f] # 0
TruthyStr(r, f) == f \in DOMAIN r /\ r[f] # ""

FormatPrize(prize, index, clock) ==
    [id |-> IF TruthyStr(prize, "id") THEN prize.id
            ELSE "prize_" \o ToString(clock) \o "_" \o ToString(index),
     name |-> IF TruthyStr(prize, "name") THEN prize.name
              ELSE "Prize " \o ToString(index + 1),
     unitCost |-> IF TruthyNum(prize, "unitCost") THEN prize.unitCost
                  ELSE IF TruthyNum(prize, "value") THEN prize.value
                  ELSE 0,
     slots |-> IF TruthyNum(prize, "slots") THEN prize.slots ELSE 0,
     stopWhenHit |-> IF "stopWhenHit" \in DOMAIN prize THEN prize.stopWhenHit ELSE TRUE]

\* responses of GET /api/configurations/:id: a failure, a record saved in the legacy
\* format, a record that holds a unitCost of 0 next to its legacy value, and a
\* record saved after the wheel was made smaller than its prizes
StoredChoices ==
    { [ok |-> FALSE],
      [ok |-> TRUE, totalSlots |-> 3, pricePerSpin |-> 25, defaultPrize |-> 10,
       prizeConfigs |-> << [id |-> "prize1", name |-> "Prize X", value |-> 50, slots |-> 1] >>],
      [ok |-> TRUE, totalSlots |-> 3, pricePerSpin |-> 25, defaultPrize |-> 10,
       prizeConfigs |-> << [id |-> "prize1", name |-> "Prize X", unitCost |-> 0,
                            value |-> 50, slots |-> 1, stopWhenHit |-> FALSE] >>],
      [ok |-> TRUE, totalSlots |-> 2, pricePerSpin |-> 25, defaultPrize |-> 10,
       prizeConfigs |-> << [id |-> "prize2", name |-> "Prize Z", unitCost |-> 30, slots |-> 3,
                            stopWhenHit |-> TRUE] >>] }

(* SimulationProvider.loadConfig, with useSimulation.clearHistory *)

LoadConfig(response, clock) ==
    /\ rb.pc = "idle"
    /\ variant = "hook"
    /\ IF response.ok
       THEN /\ totalSlots' = response.totalSlots
            /\ costPerSpin' = response.pricePerSpin
            /\ defaultPrize' = response.defaultPrize
            /\ prizeConfigs' = [i \in 1..Len(response.prizeConfigs) |->
                                  FormatPrize(response.prizeConfigs[i], i - 1, clock)]
            /\ spinHistory' = <<>>
            /\ simulationStats' = NullStats
            /\ houseStats' = ClearedHouseStats
            /\ hitSlots' = <<>>
            /\ breakLog' = <<>>
       ELSE UNCHANGED <<totalSlots, costPerSpin, defaultPrize, prizeConfigs,
                        spinHistory, simulationStats, houseStats, hitSlots, breakLog>>
    /\ UNCHANGED <<variant, commissionFee, inputVars, error, ret, rb, modeVars>>

----------------------------------------------------------------------------
(* PrizeForm.handleSubmit, with the handleAddPrize that page-refactored.tsx hands  *)
(* to the form as onAddPrize                                                        *)

\* useSimulation and usePrizeConfigurations: remainingSlots, the slots the prizes
\* leave free
RemainingSlots ==
    LET remaining == totalSlots - UsedSlots(prizeConfigs)
    IN  IF remaining > 0 THEN remaining ELSE 0

\* validateString(value, 1, 50) on the names the model enters
ValidateString(value) ==
    /\ value # ""
    /\ Len(Trim(value)) >= 1
    /\ Len(Trim(value)) <= 50

\* validatePrizeConfig(...).isValid
ValidatePrizeConfig(name, value, slots, availableSlots) ==
    /\ ValidateString(name)
    /\ value >= 0
    /\ slots >= 1
    /\ ~(slots > availableSlots)

\* handleAddPrize: the three setters queue the submitted values, and addPrizeConfig
\* then runs on the newPrizeName, newPrizeValue and newPrizeSlots of the render in
\* which handleAddPrize was created; when it adds the prize its own setters, queued
\* last, reset the inputs
HandleAddPrizeOutcome(name, value, slots, clock) ==
    LET out == AddPrizeConfigOutcome(clock)
    IN  IF out.ret
        THEN out
        ELSE [out EXCEPT !.newPrizeName = name,
                         !.newPrizeValue = value,
                         !.newPrizeSlots = slots]

\* handleSubmit: a submission that validatePrizeConfig rejects sets the form's own
\* error and leaves the state of the hooks alone
HandleSubmit(name, value, slots, clock) ==
    /\ rb.pc = "idle"
    /\ variant = "hook"
    /\ Len(prizeConfigs) < MaxPrizes
    /\ IF ~ValidatePrizeConfig(name, value, slots, RemainingSlots)
       THEN UNCHANGED <<prizeConfigs, inputVars, error, ret>>
       ELSE LET out == HandleAddPrizeOutcome(name, value, slots, clock)
            IN  /\ prizeConfigs' = out.prizeConfigs
                /\ newPrizeName' = out.newPrizeName
                /\ newPrizeValue' = out.newPrizeValue
                /\ newPrizeSlots' = out.newPrizeSlots
                /\ error' = out.error
                /\ ret' = out.ret
    /\ UNCHANGED <<variant, totalSlots, costPerSpin, defaultPrize, commissionFee, simVars>>

(* The configuration operations as a state machine *)

NextConfig ==
    \/ \E name \in NameChoices : SetNewPrizeName(name)
    \/ \E value \in ValueChoices : SetNewPrizeValue(value)
    \/ \E slots \in SlotChoices : SetNewPrizeSlots(slots)
    \/ \E clock \in ClockChoices : AddPrizeConfig(clock)
    \/ \E name \in NameChoices, value \in ValueChoices, slots \in SlotChoices,
             clock \in ClockChoices : HandleSubmit(name, value, slots, clock)
    \/ PageAddPrizeConfig
    \/ \E id \in IdChoices : RemovePrizeConfig(id)
    \/ ResetToDefault
    \/ \E id \in IdChoices, patch \in PatchChoices : UpdatePrizeConfig(id, patch)
    \/ \E text \in SlotTexts : HandleTotalSlotsChange(text)
    \/ \E response \in StoredChoices, clock \in ClockChoices : LoadConfig(response, clock)

SpecConfig == InitConfig /\ [][NextConfig]_vars

----------------------------------------------------------------------------
(* Properties of the prize resolver and of the configuration operations *)

\* number of slots of the prizes listed before position i
RECURSIVE SlotsBefore(_, _)
SlotsBefore(configs, i) ==
    IF i <= 1 THEN 0 ELSE SlotsBefore(configs, i - 1) + configs[i - 1].slots

\* the block of slots of the prize at position i
Block(configs, i) ==
    (SlotsBefore(configs, i) + 1)..(SlotsBefore(configs, i) + configs[i].slots)

WellFormed(configs, total) ==
    /\ \A i \in 1..Len(configs) : configs[i].slots >= 1
    /\ SlotsBefore(configs, Len(configs) + 1) <= total

ResolvesAsPartition(hit(_), configs, total, dflt) ==
    LET table == [s \in 1..total |-> hit(s)]
        block == [i \in 1..Len(configs) |-> Block(configs, i)]
    IN  /\ \A s \in 1..total :
              IF \E i \in 1..Len(configs) : s \in block[i]
              THEN LET i == CHOOSE j \in 1..Len(configs) : s \in block[j]
                   IN  /\ table[s].isSpecialPrize
                       /\ table[s].prizeIndex = i - 1
                       /\ table[s].prizeType = configs[i].name
                       /\ table[s].prize = configs[i].unitCost
              ELSE /\ ~table[s].isSpecialPrize
                   /\ table[s].prizeType = "Default Prize"
                   /\ table[s].prize = dflt
        /\ \A i \in 1..Len(configs) :
              Cardinality({s \in 1..total :
                              table[s].isSpecialPrize /\ table[s].prizeIndex = i - 1})
                  = configs[i].slots

\* C1: when every prize has at least one slot and the prizes fit in the wheel, both
\* variants of determinePrizeHit map every slot of [1, totalSlots] to the prize whose
\* block of slots (in list order) contains it, with its index, name and unit cost, so
\* exactly slots_i slots resolve to prize i, and every other slot to the default prize.
C1_ResolverPartition ==
    WellFormed(prizeConfigs, totalSlots) =>
        /\ ResolvesAsPartition(LAMBDA s : DeterminePrizeHit(s, prizeConfigs, defaultPrize),
                               prizeConfigs, totalSlots, defaultPrize)
        /\ ResolvesAsPartition(LAMBDA s : DeterminePrizeHit2(s, prizeConfigs, defaultPrize),
                               prizeConfigs, totalSlots, defaultPrize)

\* a well-formed list of two prizes, the second with several slots, and default slots left
C1_Witness ==
    /\ WellFormed(prizeConfigs, totalSlots)
    /\ Len(prizeConfigs) = 2
    /\ prizeConfigs[2].slots >= 2
    /\ prizeConfigs[1].name # prizeConfigs[2].name
    /\ totalSlots > SlotsBefore(prizeConfigs, 3)
    /\ DeterminePrizeHit(SlotsBefore(prizeConfigs, 3), prizeConfigs, defaultPrize).prizeIndex = 1
    /\ ~DeterminePrizeHit(totalSlots, prizeConfigs, defaultPrize).isSpecialPrize

\* C2 (as claimed): in every reachable configuration the slots of the named prizes
\* sum to at most totalSlots.
C2_SumWithinTotalSlots ==
    UsedSlots(prizeConfigs) <= totalSlots

\* what C3 asks of a call of addPrizeConfig that ends with the outcome out
C3_AddOutcome(out) ==
    LET exceeds == UsedSlots(prizeConfigs) + newPrizeSlots > totalSlots
        valid == /\ newPrizeName \notin {"", " "}
                 /\ newPrizeValue > 0
                 /\ newPrizeSlots > 0
        n == Len(out.prizeConfigs)
    IN  /\ exceeds => /\ out.ret = FALSE
                       /\ out.error # Null
                       /\ out.prizeConfigs = prizeConfigs
        /\ (~exceeds /\ valid) =>
               /\ out.ret = TRUE
               /\ n = Len(prizeConfigs) + 1
               /\ SubSeq(out.prizeConfigs, 1, Len(prizeConfigs)) = prizeConfigs
               /\ out.prizeConfigs[n].name = newPrizeName
               /\ out.prizeConfigs[n].unitCost = newPrizeValue
               /\ out.prizeConfigs[n].slots = newPrizeSlots

\* what C3 asks of a call of updatePrizeConfig(id, patch) that ends with the outcome out
C3_UpdateOutcome(id, patch, out) ==
    LET known == \E i \in 1..Len(prizeConfigs) : prizeConfigs[i].id = id
        idx == CHOOSE i \in 1..Len(prizeConfigs) :
                  prizeConfigs[i].id = id /\ \A j \in 1..(i - 1) : prizeConfigs[j].id # id
        merged == [f \in DOMAIN prizeConfigs[idx] |->
                      IF f \in DOMAIN patch THEN patch[f] ELSE prizeConfigs[idx][f]]
        newSum == UsedSlots(prizeConfigs) - prizeConfigs[idx].slots + merged.slots
        exceeds == known /\ "slots" \in DOMAIN patch /\ newSum > totalSlots
        valid == /\ known
                 /\ merged.name \notin {"", " "}
                 /\ merged.unitCost > 0
                 /\ merged.slots > 0
                 /\ newSum <= totalSlots
    IN  /\ exceeds => /\ out.ret = FALSE
                       /\ out.error # Null
                       /\ out.prizeConfigs = prizeConfigs
        /\ valid => /\ out.ret = TRUE
                     /\ out.prizeConfigs = [prizeConfigs EXCEPT ![idx] = merged]

\* C3: in every reachable configuration, a call of addPrizeConfig or updatePrizeConfig
\* with a new or changed slot count that would bring the sum of the prize slots above
\* totalSlots is rejected (it returns false, sets an error message and leaves the list
\* as it was), and a call that keeps the sum within totalSlots, with a name that is not
\* blank and a positive unit cost and slot count, is accepted and applied.
C3_RejectsOverAllocation ==
    /\ \A clock \in ClockChoices : C3_AddOutcome(AddPrizeConfigOutcome(clock))
    /\ \A id \in IdChoices, patch \in PatchChoices :
          C3_UpdateOutcome(id, patch, UpdatePrizeConfigOutcome(id, patch))

\* a call has just been refused for lack of slots and left its message, the list of
\* prizes still in place
C3_Witness ==
    /\ error = "Cannot allocate more than " \o ToString(totalSlots) \o " slots"
    /\ ret = FALSE
    /\ prizeConfigs # <<>>
    /\ \/ UsedSlots(prizeConfigs) + newPrizeSlots > totalSlots
       \/ \E i \in 1..Len(prizeConfigs) :
             UsedSlots(prizeConfigs) - prizeConfigs[i].slots + 2 > totalSlots

----------------------------------------------------------------------------
(* Simulation engine: helpers *)

\* array.includes(x)
IncludesNever(array, x) == FALSE

Includes(array, x) == \E i \in 1..Len(array) : array[i] = x

\* a profit that leaves the commission out
CalculateProfitWithoutCommission(cost, prizeCost, fee) ==
    [profit |-> cost - prizeCost, commissionAmount |-> 0]

\* calculateProfit; the prices and fees of the model make the commission a whole number
CalculateProfit(cost, prizeCost, fee) ==
    LET commissionAmount == (cost * fee) \div 100
    IN  [profit |-> (cost - commissionAmount) - prizeCost,
         commissionAmount |-> commissionAmount]

\* calculateProfit, second variant of simulationService.ts
CalculateProfit2(cost, prize, fee) ==
    LET commissionAmount == (cost * fee) \div 100
    IN  [profit |-> cost - prize - commissionAmount,
         commissionAmount |-> commissionAmount]

\* distribution[prizeType] = (distribution[prizeType] || 0) + 1
CountHit(distribution, prizeType) ==
    [k \in (DOMAIN distribution) \cup {prizeType} |->
        IF k = prizeType
        THEN (IF k \in DOMAIN distribution THEN distribution[k] ELSE 0) + 1
        ELSE distribution[k]]

\* [...prevHistory, ...history], cut to its last 500 entries
CombineHistory(prevHistory, history) ==
    LET combinedHistory == prevHistory \o history
    IN  IF Len(combinedHistory) > HistoryCap
        THEN SubSeq(combinedHistory, Len(combinedHistory) - HistoryCap + 1,
                    Len(combinedHistory))
        ELSE combinedHistory

\* houseStats.bestBreak?.profit || 0 and its like
BreakField(stats, which, f) ==
    IF which \in DOMAIN stats THEN stats[which][f] ELSE 0

\* prizeConfigs.filter(prize => prize.stopWhenHit).reduce((t, prize) => t + prize.slots, 0)
RECURSIVE RequiredPrizeSlotsFrom(_, _)
RequiredPrizeSlotsFrom(configs, i) ==
    IF i > Len(configs) THEN 0
    ELSE (IF "stopWhenHit" \in DOMAIN configs[i] /\ configs[i].stopWhenHit
          THEN configs[i].slots ELSE 0)
         + RequiredPrizeSlotsFrom(configs, i + 1)

RequiredPrizeSlots(configs) == RequiredPrizeSlotsFrom(configs, 1)

\* a / b >= c / d for spin counts b, d > 0
RatioGreaterOrEqual(a, b, c, d) == a * d >= c * b

\* a / b > c / d for spin counts b, d > 0
RatioGreater(a, b, c, d) == a * d > c * b

\* the history entry of a spin
SpinEntry(attempt, slot, cost, prize, profit, prizeType) ==
    [attempt |-> attempt, result |-> slot, cost |-> cost, prize |-> prize,
     profit |-> profit, prizeType |-> prizeType]

(* useSimulation.singleSpin *)

\* the value returned by the updater that singleSpin passes to setHouseStats, less
\* its shortTermRisk (SingleSpinRisk below) and the break probabilities it copies
SingleSpinStats(prev, currentSpinResult) ==
    LET hitResult == DeterminePrizeHit(currentSpinResult, prizeConfigs, defaultPrize)
        profit == CalculateProfit(costPerSpin, hitResult.prize, commissionFee).profit
    IN  [totalEarnings |-> prev.totalEarnings + profit,
         totalSpins |-> prev.totalSpins + 1,
         prizeDistribution |-> CountHit(prev.prizeDistribution, hitResult.prizeType),
         worstBreak |-> prev.worstBreak,
         bestBreak |-> prev.bestBreak,
         totalBreaks |-> prev.totalBreaks]

SingleSpin(currentSpinResult) ==
    /\ rb.pc = "idle"
    /\ variant = "hook"
    /\ houseStats.totalSpins < SpinBound
    /\ LET hitResult == DeterminePrizeHit(currentSpinResult, prizeConfigs, defaultPrize)
           profit == CalculateProfit(costPerSpin, hitResult.prize, commissionFee).profit
           attempt == Len(spinHistory) + 1
       IN  /\ spinHistory' = Append(spinHistory,
                                    SpinEntry(attempt, currentSpinResult, costPerSpin,
                                              hitResult.prize, profit, hitResult.prizeType))
           /\ houseStats' = SingleSpinStats(houseStats, currentSpinResult)
           /\ simulationStats' = [targetHitAttempt |-> attempt,
                                  totalCost |-> costPerSpin,
                                  finalSpinResult |-> currentSpinResult,
                                  finalPrize |-> hitResult.prize,
                                  finalProfit |-> profit,
                                  finalPrizeType |-> hitResult.prizeType]
    /\ UNCHANGED <<variant, configVars, inputVars, error, ret, modeVars, rb, breakLog, hitSlots>>

(* useSimulation.spinMultipleTimes; draws holds the slot of each spin of the batch *)

\* a[k] + b[k] for every prize type counted in a or in b
AddCounts(a, b) ==
    [k \in (DOMAIN a) \cup (DOMAIN b) |->
        (IF k \in DOMAIN a THEN a[k] ELSE 0) + (IF k \in DOMAIN b THEN b[k] ELSE 0)]

\* one iteration of the for loop: what it pushes on history and adds to the local stats
BatchSpin(draws, attempt, historyLength) ==
    LET hitResult == DeterminePrizeHit(draws[attempt], prizeConfigs, defaultPrize)
        profit == CalculateProfit(costPerSpin, hitResult.prize, commissionFee).profit
        kept == Len(draws) <= BatchHistoryLimit
                   \/ attempt > Len(draws) - BatchHistoryLimit
    IN  [history |-> IF kept
                     THEN << SpinEntry(historyLength + attempt, draws[attempt],
                                       costPerSpin, hitResult.prize, profit,
                                       hitResult.prizeType) >>
                     ELSE <<>>,
         housePrizeDistribution |-> CountHit(EmptyDistribution, hitResult.prizeType),
         houseEarnings |-> profit]

\* the iterations first..last of the for loop, in order; the range is split in two
\* halves so that a batch of any size is evaluated in few nested steps
RECURSIVE BatchRange(_, _, _, _)
BatchRange(draws, first, last, historyLength) ==
    IF first = last
    THEN BatchSpin(draws, first, historyLength)
    ELSE LET middle == (first + last) \div 2
             head == BatchRange(draws, first, middle, historyLength)
             tail == BatchRange(draws, middle + 1, last, historyLength)
         IN  [history |-> head.history \o tail.history,
              housePrizeDistribution |-> AddCounts(head.housePrizeDistribution,
                                                   tail.housePrizeDistribution),
              houseEarnings |-> head.houseEarnings + tail.houseEarnings]

\* the for loop from the given attempt on, started with the locals acc
BatchFrom(draws, attempt, acc, historyLength) ==
    IF attempt > Len(draws) THEN acc
    ELSE LET rest == BatchRange(draws, attempt, Len(draws), historyLength)
         IN  [history |-> acc.history \o rest.history,
              housePrizeDistribution |-> AddCounts(acc.housePrizeDistribution,
                                                   rest.housePrizeDistribution),
              houseEarnings |-> acc.houseEarnings + rest.houseEarnings]

\* the locals of spinMultipleTimes after its for loop; they start from the
\* houseStats and the spinHistory of the render the handler was created in
SpinMultipleTimesLocals(draws) ==
    BatchFrom(draws, 1,
              [history |-> <<>>,
               housePrizeDistribution |-> houseStats.prizeDistribution,
               houseEarnings |-> houseStats.totalEarnings],
              Len(spinHistory))

\* the value returned by the updater that spinMultipleTimes passes to setHouseStats,
\* less its shortTermRisk (SpinMultipleTimesRisk below) and the break probabilities
SpinMultipleTimesStats(prev, draws) ==
    LET batch == SpinMultipleTimesLocals(draws)
    IN  [totalEarnings |-> batch.houseEarnings,
         totalSpins |-> prev.totalSpins + Len(draws),
         prizeDistribution |-> batch.housePrizeDistribution,
         worstBreak |-> prev.worstBreak,
         bestBreak |-> prev.bestBreak,
         totalBreaks |-> prev.totalBreaks]

\* the for loop's totalCommission: the commission of every spin of the batch
TotalCommission(draws) ==
    Len(draws) * CalculateProfit(costPerSpin, 0, commissionFee).commissionAmount

\* the value that spinMultipleTimes passes to setSimulationStats
SpinMultipleTimesResult(draws) ==
    LET spins == Len(draws)
        history == SpinMultipleTimesLocals(draws).history
        totalCost == spins * costPerSpin
        lastAttemptNum == Len(spinHistory) + spins
        lastResult ==
            IF Len(history) > 0 THEN history[Len(history)]
            ELSE SpinEntry(lastAttemptNum, Null, costPerSpin, 0,
                           costPerSpin - ((costPerSpin * commissionFee) \div 100),
                           "Unknown")
    IN  [targetHitAttempt |-> lastAttemptNum,
         totalCost |-> totalCost,
         finalSpinResult |-> lastResult.result,
         finalPrize |-> lastResult.prize,
         finalProfit |-> totalCost - (lastResult.prize * spins) - TotalCommission(draws),
         finalPrizeType |-> lastResult.prizeType]

SpinMultipleTimes(draws) ==
    /\ rb.pc = "idle"
    /\ variant = "hook"
    /\ houseStats.totalSpins + Len(draws) <= SpinBound
    /\ simulationStats' = SpinMultipleTimesResult(draws)
    /\ spinHistory' = CombineHistory(spinHistory, SpinMultipleTimesLocals(draws).history)
    /\ houseStats' = SpinMultipleTimesStats(houseStats, draws)
    /\ UNCHANGED <<variant, configVars, inputVars, error, ret, modeVars, rb, breakLog, hitSlots>>

(* useSimulation.runBreaks, one action per step of its loops.  The call is           *)
(* synchronous: while its frame rb is live no other handler runs.                     *)

\* the locals of runBreaks before its for loop
RunBreaksStart(breakCount) ==
    /\ rb.pc = "idle"
    /\ variant = "hook"
    /\ Len(breakLog) + breakCount <= BreakBound
    /\ rb' = [pc |-> "for",
              breakCount |-> breakCount,
              breakNum |-> 1,
              history |-> <<>>,
              housePrizeDistribution |-> houseStats.prizeDistribution,
              houseEarnings |-> houseStats.totalEarnings,
              bestBreakProfit |-> BreakField(houseStats, "bestBreak", "profit"),
              bestBreakSpins |-> BreakField(houseStats, "bestBreak", "spins"),
              worstBreakProfit |-> BreakField(houseStats, "worstBreak", "profit"),
              worstBreakSpins |-> BreakField(houseStats, "worstBreak", "spins"),
              currentBreakProfit |-> 0,
              currentBreakSpins |-> 0,
              totalPrizeSlots |-> 0,
              breakHitSlots |-> <<>>,
              remainingPrizeSlots |-> 0,
              remainingRequiredSlots |-> 0]
    /\ UNCHANGED <<variant, configVars, inputVars, error, ret, modeVars, houseStats, spinHistory,
                   breakLog, simulationStats, hitSlots>>

\* head of the for loop: a break is skipped when no prize has a slot, and otherwise
\* starts with fresh per-break locals
BreakBegin ==
    /\ rb.pc = "for"
    /\ variant = "hook"
    /\ rb.breakNum <= rb.breakCount
    /\ LET totalPrizeSlots == UsedSlots(prizeConfigs)
       IN  IF totalPrizeSlots = 0
           THEN /\ rb' = [rb EXCEPT !.breakNum = @ + 1]
                /\ breakLog' = Append(breakLog, [spins |-> 0, profit |-> 0])
           ELSE /\ rb' = [rb EXCEPT !.pc = "while",
                                    !.totalPrizeSlots = totalPrizeSlots,
                                    !.breakHitSlots = <<>>,
                                    !.remainingPrizeSlots = totalPrizeSlots,
                                    !.currentBreakProfit = 0,
                                    !.currentBreakSpins = 0,
                                    !.remainingRequiredSlots = RequiredPrizeSlots(prizeConfigs)]
                /\ UNCHANGED breakLog
    /\ UNCHANGED <<variant, configVars, inputVars, error, ret, modeVars, houseStats, spinHistory,
                   simulationStats, hitSlots>>

\* an iteration of the inner loop whose random slot was already hit in this break
RedrawSlot(randomSlot) ==
    /\ rb.pc = "while"
    /\ variant = "hook"
    /\ rb.remainingRequiredSlots > 0
    /\ Includes(rb.breakHitSlots, randomSlot)
    /\ UNCHANGED vars

\* an iteration of the while loop: the inner loop ends on a slot not yet hit
DrawSlot(randomSlot) ==
    /\ rb.pc = "while"
    /\ variant = "hook"
    /\ rb.remainingRequiredSlots > 0
    /\ ~Includes(rb.breakHitSlots, randomSlot)
    /\ LET hitResult == DeterminePrizeHit(randomSlot, prizeConfigs, defaultPrize)
           profit == CalculateProfit(costPerSpin, hitResult.prize, commissionFee).profit
           isLastBreak == rb.breakNum = rb.breakCount
           isFewBreaks == rb.breakCount <= FewBreaksLimit
           isImportantSpin == Len(rb.breakHitSlots) >= rb.totalPrizeSlots - 5
           required == /\ hitResult.isSpecialPrize
                       /\ "prizeIndex" \in DOMAIN hitResult
                       /\ hitResult.prizeIndex + 1 \in 1..Len(prizeConfigs)
                       /\ prizeConfigs[hitResult.prizeIndex + 1].stopWhenHit
       IN  rb' = [rb EXCEPT
                    !.currentBreakSpins = @ + 1,
                    !.currentBreakProfit = @ + profit,
                    !.history =
                        IF isLastBreak \/ isFewBreaks \/ isImportantSpin
                        THEN Append(@, SpinEntry(Len(spinHistory) + Len(rb.history) + 1,
                                                 randomSlot, costPerSpin, hitResult.prize,
                                                 profit, hitResult.prizeType))
                        ELSE @,
                    !.housePrizeDistribution = CountHit(@, hitResult.prizeType),
                    !.houseEarnings = @ + profit,
                    !.breakHitSlots = Append(@, randomSlot),
                    !.remainingPrizeSlots = IF hitResult.isSpecialPrize THEN @ - 1 ELSE @,
                    !.remainingRequiredSlots = IF required THEN @ - 1 ELSE @]
    /\ UNCHANGED <<variant, configVars, inputVars, error, ret, modeVars, houseStats, spinHistory,
                   breakLog, simulationStats, hitSlots>>

\* after the while loop: the best and worst break kept by the call
BreakEnd ==
    /\ rb.pc = "while"
    /\ variant = "hook"
    /\ ~(rb.remainingRequiredSlots > 0)
    /\ LET isBest ==
               \/ IF rb.bestBreakSpins > 0
                  THEN RatioGreater(rb.currentBreakProfit, rb.currentBreakSpins,
                                    rb.bestBreakProfit, rb.bestBreakSpins)
                  ELSE rb.currentBreakProfit > 0
               \/ rb.bestBreakSpins = 0
           isWorst ==
               \/ IF rb.worstBreakSpins > 0
                  THEN RatioGreater(rb.worstBreakProfit, rb.worstBreakSpins,
                                    rb.currentBreakProfit, rb.currentBreakSpins)
                  ELSE rb.currentBreakProfit < 0
               \/ rb.worstBreakSpins = 0
           recordBest == rb.currentBreakSpins > 0 /\ isBest
           recordWorst == rb.currentBreakSpins > 0 /\ isWorst
       IN  rb' = [rb EXCEPT
                    !.pc = "for",
                    !.breakNum = @ + 1,
                    !.bestBreakProfit = IF recordBest THEN rb.currentBreakProfit ELSE @,
                    !.bestBreakSpins = IF recordBest THEN rb.currentBreakSpins ELSE @,
                    !.worstBreakProfit = IF recordWorst THEN rb.currentBreakProfit ELSE @,
                    !.worstBreakSpins = IF recordWorst THEN rb.currentBreakSpins ELSE @]
    /\ breakLog' = Append(breakLog, [spins |-> rb.currentBreakSpins,
                                     profit |-> rb.currentBreakProfit])
    /\ UNCHANGED <<variant, configVars, inputVars, error, ret, modeVars, houseStats, spinHistory,
                   simulationStats, hitSlots>>

\* after the for loop: setSpinHistory and setHouseStats
\* the value returned by the updater that runBreaks passes to setHouseStats, less its
\* shortTermRisk (RunBreaksRisk below) and the break probabilities
RunBreaksStats(prev) ==
    [totalEarnings |-> rb.houseEarnings,
     totalSpins |-> prev.totalSpins + Len(rb.history),
     totalBreaks |-> prev.totalBreaks + rb.breakCount,
     prizeDistribution |-> rb.housePrizeDistribution,
     worstBreak |-> [spins |-> rb.worstBreakSpins, profit |-> rb.worstBreakProfit],
     bestBreak |-> [spins |-> rb.bestBreakSpins, profit |-> rb.bestBreakProfit]]

RunBreaksCommit ==
    /\ rb.pc = "for"
    /\ variant = "hook"
    /\ rb.breakNum > rb.breakCount
    /\ spinHistory' = CombineHistory(spinHistory, rb.history)
    /\ houseStats' = RunBreaksStats(houseStats)
    /\ rb' = IdleFrame
    /\ UNCHANGED <<variant, configVars, inputVars, error, ret, modeVars, breakLog, simulationStats, hitSlots>>

(* useSimulation.clearHistory *)

ClearHistory ==
    /\ rb.pc = "idle"
    /\ variant = "hook"
    /\ spinHistory' = <<>>
    /\ simulationStats' = NullStats
    /\ houseStats' = ClearedHouseStats
    /\ hitSlots' = <<>>
    /\ breakLog' = <<>>
    /\ UNCHANGED <<variant, configVars, inputVars, error, ret, modeVars, rb>>

(* useSimulation: the setters that the hook hands out *)

SetSimulationMode(mode) ==
    /\ rb.pc = "idle"
    /\ variant = "hook"
    /\ simulationMode' = mode
    /\ UNCHANGED <<variant, configVars, inputVars, error, ret, houseStats, spinHistory,
                   rb, breakLog, simulationStats, hitSlots, pending>>

SetHitSlots(slots) ==
    /\ rb.pc = "idle"
    /\ variant = "hook"
    /\ hitSlots' = slots
    /\ UNCHANGED <<variant, configVars, inputVars, error, ret, houseStats, spinHistory,
                   rb, breakLog, simulationStats, modeVars>>

----------------------------------------------------------------------------
(* app/page.tsx: the page component keeps its own copy of the engine.  Its prizes   *)
(* have no stopWhenHit field and its houseStats no totalBreaks.                      *)

\* loadConfiguration: conversion of a stored prize record
PageFormatPrize(prize, index) ==
    [id |-> "prize" \o ToString(index + 1),
     name |-> IF TruthyStr(prize, "name") THEN prize.name
              ELSE "Prize " \o ToString(index + 1),
     unitCost |-> IF TruthyNum(prize, "unitCost") THEN prize.unitCost
                  ELSE IF TruthyNum(prize, "value") THEN prize.value
                  ELSE 0,
     slots |-> IF TruthyNum(prize, "slots") THEN prize.slots ELSE 0]

\* the fields of prev among those named, absent ones staying absent
Pick(prev, fields) == [f \in fields \cap DOMAIN prev |-> prev[f]]

(* page.tsx singleSpin *)

PageSingleSpin(currentSpinResult) ==
    /\ rb.pc = "idle"
    /\ variant = "page"
    /\ houseStats.totalSpins < SpinBound
    /\ LET hit == DeterminePrizeHit2(currentSpinResult, prizeConfigs, defaultPrize)
           profit == costPerSpin - hit.prize
           attempt == Len(spinHistory) + 1
       IN  /\ spinHistory' = Append(spinHistory,
                                    SpinEntry(attempt, currentSpinResult, costPerSpin,
                                              hit.prize, profit, hit.prizeType))
           /\ houseStats' =
                 [totalEarnings |-> houseStats.totalEarnings + costPerSpin - hit.prize,
                  totalSpins |-> houseStats.totalSpins + 1,
                  prizeDistribution |-> CountHit(houseStats.prizeDistribution,
                                                 hit.prizeType)]
           /\ simulationStats' = [targetHitAttempt |-> attempt,
                                  totalCost |-> costPerSpin,
                                  finalSpinResult |-> currentSpinResult,
                                  finalPrize |-> hit.prize,
                                  finalProfit |-> profit,
                                  finalPrizeType |-> hit.prizeType]
    /\ UNCHANGED <<variant, configVars, inputVars, error, ret, modeVars, rb, breakLog, hitSlots>>

(* page.tsx spinMultipleTimes *)

RECURSIVE PageBatchFrom(_, _, _, _)
PageBatchFrom(draws, attempt, acc, historyLength) ==
    IF attempt > Len(draws) THEN acc
    ELSE LET hit == DeterminePrizeHit2(draws[attempt], prizeConfigs, defaultPrize)
             profit == costPerSpin - hit.prize
             kept == Len(draws) <= BatchHistoryLimit
                        \/ attempt > Len(draws) - BatchHistoryLimit
         IN  PageBatchFrom(draws, attempt + 1,
                 [history |-> IF kept
                              THEN Append(acc.history,
                                          SpinEntry(historyLength + attempt, draws[attempt],
                                                    costPerSpin, hit.prize, profit,
                                                    hit.prizeType))
                              ELSE acc.history,
                  housePrizeDistribution |-> CountHit(acc.housePrizeDistribution,
                                                      hit.prizeType),
                  houseEarnings |-> acc.houseEarnings + costPerSpin - hit.prize],
                 historyLength)

PageSpinMultipleTimes(draws) ==
    /\ rb.pc = "idle"
    /\ variant = "page"
    /\ houseStats.totalSpins + Len(draws) <= SpinBound
    /\ LET batch == PageBatchFrom(draws, 1,
                                  [history |-> <<>>,
                                   housePrizeDistribution |-> houseStats.prizeDistribution,
                                   houseEarnings |-> houseStats.totalEarnings],
                                  Len(spinHistory))
       IN  /\ spinHistory' = CombineHistory(spinHistory, batch.history)
           /\ houseStats' =
                 Spread([totalEarnings |-> batch.houseEarnings,
                         totalSpins |-> houseStats.totalSpins + Len(draws),
                         prizeDistribution |-> batch.housePrizeDistribution],
                        Pick(houseStats, {"worstBreak", "bestBreak"}))
           /\ simulationStats' =
                 LET spins == Len(draws)
                     totalCost == spins * costPerSpin
                     lastAttemptNum == Len(spinHistory) + spins
                     lastResult ==
                         IF Len(batch.history) > 0 THEN batch.history[Len(batch.history)]
                         ELSE SpinEntry(lastAttemptNum, Null, costPerSpin, 0, costPerSpin,
                                        "Unknown")
                 IN  [targetHitAttempt |-> lastAttemptNum,
                      totalCost |-> totalCost,
                      finalSpinResult |-> lastResult.result,
                      finalPrize |-> lastResult.prize,
                      finalProfit |-> totalCost - (lastResult.prize * spins),
                      finalPrizeType |-> lastResult.prizeType]
    /\ UNCHANGED <<variant, configVars, inputVars, error, ret, modeVars, rb, breakLog, hitSlots>>

(* page.tsx runBreaks, one action per step of its loops *)

PageRunBreaksStart(breakCount) ==
    /\ rb.pc = "idle"
    /\ variant = "page"
    /\ Len(breakLog) + breakCount <= BreakBound
    /\ rb' = [pc |-> "for",
              breakCount |-> breakCount,
              breakNum |-> 1,
              history |-> <<>>,
              housePrizeDistribution |-> houseStats.prizeDistribution,
              houseEarnings |-> houseStats.totalEarnings,
              bestBreakProfit |-> BreakField(houseStats, "bestBreak", "profit"),
              bestBreakSpins |-> BreakField(houseStats, "bestBreak", "spins"),
              worstBreakProfit |-> BreakField(houseStats, "worstBreak", "profit"),
              worstBreakSpins |-> BreakField(houseStats, "worstBreak", "spins"),
              currentBreakProfit |-> 0,
              currentBreakSpins |-> 0,
              totalPrizeSlots |-> 0,
              breakHitSlots |-> <<>>,
              remainingPrizeSlots |-> 0,
              totalCost |-> 0,
              totalPrizesRemoved |-> 0]
    /\ UNCHANGED <<variant, configVars, inputVars, error, ret, modeVars, houseStats, spinHistory,
                   breakLog, simulationStats, hitSlots>>

PageBreakBegin ==
    /\ rb.pc = "for"
    /\ variant = "page"
    /\ rb.breakNum <= rb.breakCount
    /\ LET totalPrizeSlots == UsedSlots(prizeConfigs)
       IN  IF totalPrizeSlots = 0
           THEN /\ rb' = [rb EXCEPT !.breakNum = @ + 1]
                /\ breakLog' = Append(breakLog, [spins |-> 0, profit |-> 0])
           ELSE /\ rb' = [rb EXCEPT !.pc = "while",
                                    !.totalPrizeSlots = totalPrizeSlots,
                                    !.breakHitSlots = <<>>,
                                    !.remainingPrizeSlots = totalPrizeSlots,
                                    !.currentBreakProfit = 0,
                                    !.currentBreakSpins = 0]
                /\ UNCHANGED breakLog
    /\ UNCHANGED <<variant, configVars, inputVars, error, ret, modeVars, houseStats, spinHistory,
                   simulationStats, hitSlots>>

PageRedrawSlot(randomSlot) ==
    /\ rb.pc = "while"
    /\ variant = "page"
    /\ rb.remainingPrizeSlots > 0
    /\ Includes(rb.breakHitSlots, randomSlot)
    /\ UNCHANGED vars

PageDrawSlot(randomSlot) ==
    /\ rb.pc = "while"
    /\ variant = "page"
    /\ rb.remainingPrizeSlots > 0
    /\ ~Includes(rb.breakHitSlots, randomSlot)
    /\ LET hitResult == DeterminePrizeHit2(randomSlot, prizeConfigs, defaultPrize)
           profit == costPerSpin - hitResult.prize
           isLastBreak == rb.breakNum = rb.breakCount
           isFewBreaks == rb.breakCount <= FewBreaksLimit
           isImportantSpin == Len(rb.breakHitSlots) >= rb.totalPrizeSlots - 5
       IN  rb' = [rb EXCEPT
                    !.currentBreakSpins = @ + 1,
                    !.currentBreakProfit = @ + profit,
                    !.history =
                        IF isLastBreak \/ isFewBreaks \/ isImportantSpin
                        THEN Append(@, SpinEntry(Len(spinHistory) + Len(rb.history) + 1,
                                                 randomSlot, costPerSpin, hitResult.prize,
                                                 profit, hitResult.prizeType))
                        ELSE @,
                    !.housePrizeDistribution = CountHit(@, hitResult.prizeType),
                    !.houseEarnings = @ + costPerSpin - hitResult.prize,
                    !.breakHitSlots = Append(@, randomSlot),
                    !.remainingPrizeSlots = IF hitResult.isSpecialPrize THEN @ - 1 ELSE @,
                    !.totalCost = @ + costPerSpin,
                    !.totalPrizesRemoved = IF hitResult.isSpecialPrize THEN @ + 1 ELSE @]
    /\ UNCHANGED <<variant, configVars, inputVars, error, ret, modeVars, houseStats, spinHistory,
                   breakLog, simulationStats, hitSlots>>

PageBreakEnd ==
    /\ rb.pc = "while"
    /\ variant = "page"
    /\ ~(rb.remainingPrizeSlots > 0)
    /\ LET recordBest ==
               /\ rb.currentBreakSpins > 0
               /\ \/ rb.bestBreakSpins = 0
                  \/ RatioGreater(rb.currentBreakProfit, rb.currentBreakSpins,
                                  rb.bestBreakProfit, rb.bestBreakSpins)
           recordWorst ==
               /\ rb.currentBreakSpins > 0
               /\ \/ rb.worstBreakSpins = 0
                  \/ RatioGreater(rb.worstBreakProfit, rb.worstBreakSpins,
                                  rb.currentBreakProfit, rb.currentBreakSpins)
       IN  rb' = [rb EXCEPT
                    !.pc = "for",
                    !.breakNum = @ + 1,
                    !.bestBreakProfit = IF recordBest THEN rb.currentBreakProfit ELSE @,
                    !.bestBreakSpins = IF recordBest THEN rb.currentBreakSpins ELSE @,
                    !.worstBreakProfit = IF recordWorst THEN rb.currentBreakProfit ELSE @,
                    !.worstBreakSpins = IF recordWorst THEN rb.currentBreakSpins ELSE @]
    /\ breakLog' = Append(breakLog, [spins |-> rb.currentBreakSpins,
                                     profit |-> rb.currentBreakProfit])
    /\ UNCHANGED <<variant, configVars, inputVars, error, ret, modeVars, houseStats, spinHistory,
                   simulationStats, hitSlots>>

PageRunBreaksCommit ==
    /\ rb.pc = "for"
    /\ variant = "page"
    /\ rb.breakNum > rb.breakCount
    /\ spinHistory' = CombineHistory(spinHistory, rb.history)
    /\ houseStats' =
          [totalEarnings |-> rb.houseEarnings,
           totalSpins |-> houseStats.totalSpins + Len(rb.history),
           prizeDistribution |-> rb.housePrizeDistribution,
           worstBreak |-> [spins |-> rb.worstBreakSpins, profit |-> rb.worstBreakProfit],
           bestBreak |-> [spins |-> rb.bestBreakSpins, profit |-> rb.bestBreakProfit]]
    /\ hitSlots' = <<>>
    /\ simulationStats' =
          LET lastAttemptNum == Len(spinHistory) + Len(rb.history)
              lastResult ==
                  IF Len(rb.history) > 0 THEN rb.history[Len(rb.history)]
                  ELSE SpinEntry(lastAttemptNum, 0, rb.totalCost, 0, rb.totalCost, "Unknown")
          IN  [targetHitAttempt |-> rb.breakCount,
               totalCost |-> rb.totalCost,
               finalSpinResult |-> lastResult.result,
               finalPrize |-> lastResult.prize,
               finalProfit |-> rb.totalCost - (lastResult.prize * rb.totalPrizesRemoved),
               finalPrizeType |-> "Completed " \o ToString(rb.breakCount) \o " breaks ("
                                     \o ToString(rb.totalPrizesRemoved) \o " prizes hit)"]
    /\ rb' = IdleFrame
    /\ UNCHANGED <<variant, configVars, inputVars, error, ret, modeVars, breakLog>>

(* page.tsx clearHistory *)

PageClearHistory ==
    /\ rb.pc = "idle"
    /\ variant = "page"
    /\ spinHistory' = <<>>
    /\ simulationStats' = NullStats
    /\ houseStats' = PageInitialHouseStats
    /\ hitSlots' = <<>>
    /\ breakLog' = <<>>
    /\ UNCHANGED <<variant, configVars, inputVars, error, ret, modeVars, rb>>

----------------------------------------------------------------------------
(* simulationService.ts: functions the hooks do not call *)

\* what a call can do: return a slot, or throw
Returns(slot) == [kind |-> "returns", slot |-> slot]
Throws(message) == [kind |-> "throws", message |-> message]

Unhit(total, hits) == {s \in 1..total : ~Includes(hits, s)}

\* getValidRandomSlot, first variant: the set of its possible outcomes
GetValidRandomSlot(total, hits) ==
    IF Len(hits) >= total
    THEN {Throws("All slots have been hit")}
    ELSE IF Unhit(total, hits) # {}
         THEN {Returns(s) : s \in Unhit(total, hits)}
         ELSE {Throws("Could not find a valid slot")}

\* getValidRandomSlot, second variant: the set of its possible outcomes
GetValidRandomSlot2(total, hits) ==
    IF Len(hits) >= total
    THEN {Returns(s) : s \in 1..total}
    ELSE IF Unhit(total, hits) # {}
         THEN {Returns(s) : s \in Unhit(total, hits)}
         ELSE {Returns(s) : s \in 1..total}

InitializeHouseStats ==
    [totalEarnings |-> 0, totalSpins |-> 0, prizeDistribution |-> EmptyDistribution]

\* updateHouseStats: the value it returns, and the value of the object passed in
\* after the call.  updatedStats = { ...stats } copies the fields of stats, so the
\* two objects hold their own totalEarnings and totalSpins and share one
\* prizeDistribution object, which the call writes to.
UpdateHouseStatsCall(stats, result) ==
    LET prizeDistribution == CountHit(stats.prizeDistribution, result.prizeType)
    IN  [returned |-> Spread(stats,
                             [totalEarnings |-> stats.totalEarnings + result.profit,
                              totalSpins |-> stats.totalSpins + 1,
                              prizeDistribution |-> prizeDistribution]),
         stats |-> Spread(stats, [prizeDistribution |-> prizeDistribution])]

\* updateHouseStats: the value it returns
UpdateHouseStats(stats, result) == UpdateHouseStatsCall(stats, result).returned

\* profit / spins > record.profit / record.spins as JavaScript evaluates it for
\* spins > 0: a record of zero spins makes the right side NaN or an infinity
AboveRecord(profit, spins, record) ==
    IF record.spins > 0
    THEN RatioGreater(profit, spins, record.profit, record.spins)
    ELSE record.profit < 0

BelowRecord(profit, spins, record) ==
    IF record.spins > 0
    THEN RatioGreater(record.profit, record.spins, profit, spins)
    ELSE record.profit > 0

\* updateBreakPerformance, without the probabilities it derives from totalBreaks
UpdateBreakPerformance(stats, spins, profit, totalBreaks) ==
    IF spins <= 0 THEN stats
    ELSE LET counted == Spread(stats, [totalBreaks |-> totalBreaks])
             withBest ==
                 IF "bestBreak" \notin DOMAIN counted
                       \/ AboveRecord(profit, spins, counted.bestBreak)
                 THEN Spread(counted, [bestBreak |-> [spins |-> spins, profit |-> profit]])
                 ELSE counted
         IN  IF "worstBreak" \notin DOMAIN withBest
                   \/ BelowRecord(profit, spins, withBest.worstBreak)
             THEN Spread(withBest, [worstBreak |-> [spins |-> spins, profit |-> profit]])
             ELSE withBest

----------------------------------------------------------------------------
(* simulationService.ts: the risk and probability estimates.  Their numbers are     *)
(* fractions n / d with d > 0, compared by cross multiplication.                    *)

Frac(n, d) == [n |-> n, d |-> d]
Whole(n) == Frac(n, 1)
\* null, where the code passes a number or null
NullNumber == Frac(0, 0)
IsNull(a) == a.d = 0

FracEq(a, b) == a.n * b.d = b.n * a.d
FracLess(a, b) == a.n * b.d < b.n * a.d
FracLeq(a, b) == a.n * b.d <= b.n * a.d

FracAdd(a, b) == Frac(a.n * b.d + b.n * a.d, a.d * b.d)
FracSub(a, b) == Frac(a.n * b.d - b.n * a.d, a.d * b.d)
FracMul(a, b) == Frac(a.n * b.n, a.d * b.d)
\* a / b for b # 0
FracDiv(a, b) == IF b.n > 0 THEN Frac(a.n * b.d, a.d * b.n)
                 ELSE Frac(-(a.n * b.d), a.d * (-b.n))
\* Math.abs, Math.min, Math.max, Math.ceil
FracAbs(a) == IF a.n < 0 THEN Frac(-a.n, a.d) ELSE a
FracMin(a, b) == IF FracLess(b, a) THEN b ELSE a
FracMax(a, b) == IF FracLess(a, b) THEN b ELSE a
FracCeil(a) == -((-a.n) \div a.d)

\* Math.pow(a, k) for a whole k >= 0
RECURSIVE FracPow(_, _)
FracPow(a, k) == IF k <= 0 THEN Whole(1) ELSE FracMul(a, FracPow(a, k - 1))

\* the highest payout: defaultPrize, raised by every unitCost above it
RECURSIVE WorstCasePrizeFrom(_, _, _)
WorstCasePrizeFrom(configs, i, worstCasePrize) ==
    IF i > Len(configs) THEN worstCasePrize
    ELSE WorstCasePrizeFrom(configs, i + 1,
                            IF configs[i].unitCost > worstCasePrize
                            THEN configs[i].unitCost ELSE worstCasePrize)

\* prizeConfigs.find(c => c.unitCost === worstCasePrize)?.slots || 0
WorstPrizeSlotCount(configs, worstCasePrize) ==
    IF \E i \in 1..Len(configs) : configs[i].unitCost = worstCasePrize
    THEN configs[CHOOSE i \in 1..Len(configs) :
                    /\ configs[i].unitCost = worstCasePrize
                    /\ \A j \in 1..(i - 1) : configs[j].unitCost # worstCasePrize].slots
    ELSE 0

\* sum over the stopWhenHit prizes of (totalSlots / slots) * (costPerSpin - defaultPrize)
RECURSIVE ExpectedBreakCostFrom(_, _, _, _, _)
ExpectedBreakCostFrom(configs, i, cost, dflt, total) ==
    IF i > Len(configs) THEN Whole(0)
    ELSE IF "stopWhenHit" \in DOMAIN configs[i] /\ configs[i].stopWhenHit
         THEN FracAdd(FracMul(Frac(total, configs[i].slots), Whole(cost - dflt)),
                      ExpectedBreakCostFrom(configs, i + 1, cost, dflt, total))
         ELSE ExpectedBreakCostFrom(configs, i + 1, cost, dflt, total)

\* calculateShortTermRisk, first variant, called with a HouseStatsType and with
\* prizes of at least one slot each
CalculateShortTermRisk(stats, avgProfitPerSpin, cost, configs, dflt, total, remainingSlots, mode, fee) ==
    LET earnings == stats.totalEarnings
        keptShare == Frac(100 - fee, 100)
    IN  IF mode = "normal"
        THEN IF earnings <= 0 THEN Whole(1)
             ELSE LET worstCasePrize == WorstCasePrizeFrom(configs, 1, dflt)
                      adjustedCost == FracMul(Whole(cost), keptShare)
                      worstCaseProfit == FracSub(adjustedCost, Whole(worstCasePrize))
                  IN  IF FracLeq(Whole(0), worstCaseProfit) THEN Whole(0)
                      ELSE LET hitsToNegative ==
                                   FracCeil(FracDiv(Whole(earnings),
                                                    FracAbs(worstCaseProfit)))
                               probabilityOfWorstCase ==
                                   Frac(WorstPrizeSlotCount(configs, worstCasePrize), total)
                           IN  FracPow(probabilityOfWorstCase, hitsToNegative)
        ELSE IF earnings <= 0 THEN Whole(1)
             ELSE IF ~\E i \in 1..Len(configs) :
                          "stopWhenHit" \in DOMAIN configs[i] /\ configs[i].stopWhenHit
                  THEN Whole(0)
                  ELSE LET expectedBreakCost ==
                               FracMul(ExpectedBreakCostFrom(configs, 1, cost, dflt, total),
                                       keptShare)
                       IN  IF FracLeq(expectedBreakCost, Whole(0)) THEN Whole(0)
                           ELSE IF FracLeq(Whole(earnings), expectedBreakCost)
                                THEN Frac(3, 4)
                                ELSE FracMul(FracDiv(expectedBreakCost, Whole(earnings)),
                                             Frac(1, 2))

\* sum of unitCost * slots over the prizes
RECURSIVE TotalPrizeValueFrom(_, _)
TotalPrizeValueFrom(configs, i) ==
    IF i > Len(configs) THEN 0
    ELSE configs[i].unitCost * configs[i].slots + TotalPrizeValueFrom(configs, i + 1)

\* calculateShortTermRisk, second variant, for costPerSpin > 0; a worst break with
\* a loss has spins > 0
CalculateShortTermRisk2(stats, avgProfitPerSpin, cost, configs, dflt, total, remainingSlots) ==
    IF stats.totalSpins > 0 /\ ~IsNull(avgProfitPerSpin)
    THEN IF FracLess(avgProfitPerSpin, Whole(0))
         THEN FracMin(Frac(9, 10),
                      FracAdd(FracAbs(FracDiv(avgProfitPerSpin, Whole(cost))),
                              Frac(4, 10)))
         ELSE IF "worstBreak" \in DOMAIN stats /\ stats.worstBreak.profit < 0
              THEN LET worstBreakLossPerSpin ==
                           Frac(stats.worstBreak.profit, stats.worstBreak.spins)
                   IN  FracMin(Frac(3, 4),
                               FracAdd(FracAbs(FracDiv(worstBreakLossPerSpin, Whole(cost))),
                                       Frac(1, 4)))
              ELSE FracMax(Frac(1, 20),
                           FracSub(Frac(15, 100),
                                   FracMul(FracDiv(avgProfitPerSpin, Whole(cost)),
                                           Frac(1, 10))))
    ELSE LET totalPrizeValue == TotalPrizeValueFrom(configs, 1) + dflt * remainingSlots
             avgPrizeValue == Frac(totalPrizeValue, total)
         IN  IF FracLess(Whole(cost), avgPrizeValue)
             THEN FracMin(Frac(9, 10),
                          FracMul(FracDiv(avgPrizeValue, Whole(cost)), Frac(7, 10)))
             ELSE FracMax(Frac(1, 20),
                          FracMul(FracDiv(avgPrizeValue, Whole(cost)), Frac(4, 10)))

\* calculateBreakProbabilities, first variant
CalculateBreakProbabilities(worstBreakSpins, bestBreakSpins, totalBreaks, total) ==
    LET worstBreakProbability ==
            IF totalBreaks > 0 THEN Frac(1, totalBreaks) ELSE Whole(0)
        bestBreakProbability ==
            IF totalBreaks > 0 THEN Frac(1, totalBreaks) ELSE Whole(0)
    IN  [worstBreakProbability |-> worstBreakProbability,
         bestBreakProbability |-> bestBreakProbability,
         worstBreakSpinProbability |->
             IF worstBreakSpins > 0
             THEN FracPow(worstBreakProbability, worstBreakSpins) ELSE Whole(0),
         bestBreakSpinProbability |->
             IF bestBreakSpins > 0
             THEN FracPow(bestBreakProbability, bestBreakSpins) ELSE Whole(0)]

\* calculateBreakProbabilities, second variant
CalculateBreakProbabilities2(worstBreakSpins, bestBreakSpins, totalBreaks, total) ==
    LET breakProbability ==
            IF totalBreaks > 0
            THEN IF totalBreaks >= 10
                 THEN FracMax(Frac(1, 100), Frac(1, totalBreaks))
                 ELSE FracMax(Frac(5, 100), Frac(1, totalBreaks * 2))
            ELSE Frac(1, 10)
    IN  [worstBreakProbability |-> breakProbability,
         bestBreakProbability |-> breakProbability,
         worstBreakSpinProbability |->
             IF worstBreakSpins > 0
             THEN FracPow(Frac(1, total), worstBreakSpins) ELSE Whole(0),
         bestBreakSpinProbability |->
             IF bestBreakSpins > 0
             THEN FracPow(Frac(1, total), bestBreakSpins) ELSE Whole(0)]

----------------------------------------------------------------------------
(* The simulation engine as a state machine, on configurations that the           *)
(* configuration operations and the loaders produce                               *)

PrizeX(stop) ==
    [id |-> "prize1", name |-> "Prize X", unitCost |-> 50, slots |-> 1, stopWhenHit |-> stop]

PrizeA(stop) ==
    [id |-> "prize_1", name |-> "A", unitCost |-> 10, slots |-> 1, stopWhenHit |-> stop]

\* hook: a wheel of three slots with Prize X and an added prize A, either of them
\* marked Stop When Hit or not; the default prizes on a wheel made smaller than
\* their four slots; and a wheel whose prizes were all removed
HookConfigs ==
    { [totalSlots |-> 3, prizeConfigs |-> <<PrizeX(x), PrizeA(a)>>] : x, a \in BOOLEAN }
    \cup { [totalSlots |-> 3, prizeConfigs |-> DEFAULT_PRIZE_CONFIGS],
           [totalSlots |-> 3, prizeConfigs |-> <<>>] }

\* page: the state after its loadConfiguration of a record saved (from the hook's
\* interface) with Prize X marked Stop When Hit and prize A not
PageSavedPrizes == <<PrizeX(TRUE), PrizeA(FALSE)>>

PageConfigs ==
    { [totalSlots |-> 3,
       prizeConfigs |-> [i \in 1..Len(PageSavedPrizes) |->
                            PageFormatPrize(PageSavedPrizes[i], i - 1)]] }

InitSim ==
    /\ variant \in {"hook", "page"}
    /\ \E c \in (IF variant = "hook" THEN HookConfigs ELSE PageConfigs) :
          /\ totalSlots = c.totalSlots
          /\ prizeConfigs = c.prizeConfigs
    /\ costPerSpin = DefaultCostPerSpin
    /\ defaultPrize = DefaultDefaultPrize
    /\ commissionFee = 0
    /\ InitCommon

\* numbers of spins asked of spinMultipleTimes
BatchSizes == {2}

Draws == UNION {[1..n -> 1..totalSlots] : n \in BatchSizes}

NextSim ==
    \/ \E slot \in 1..totalSlots : SingleSpin(slot)
    \/ \E draws \in Draws : SpinMultipleTimes(draws)
    \/ \E breakCount \in 1..MaxBreaks : RunBreaksStart(breakCount)
    \/ BreakBegin
    \/ \E slot \in 1..totalSlots : RedrawSlot(slot)
    \/ \E slot \in 1..totalSlots : DrawSlot(slot)
    \/ BreakEnd
    \/ RunBreaksCommit
    \/ ClearHistory
    \/ \E slot \in 1..totalSlots : PageSingleSpin(slot)
    \/ \E draws \in Draws : PageSpinMultipleTimes(draws)
    \/ \E breakCount \in 1..MaxBreaks : PageRunBreaksStart(breakCount)
    \/ PageBreakBegin
    \/ \E slot \in 1..totalSlots : PageRedrawSlot(slot)
    \/ \E slot \in 1..totalSlots : PageDrawSlot(slot)
    \/ PageBreakEnd
    \/ PageRunBreaksCommit
    \/ PageClearHistory

SpecSim == InitSim /\ [][NextSim]_vars

----------------------------------------------------------------------------
(* Long runs of the hook's engine on the default wheel of 25 slots: batches of     *)
(* more spins than a batch keeps, runs of more breaks than runBreaks keeps in       *)
(* full, and single spins on an empty and on a full history                         *)

\* the default prizes and a prize "A" of two slots added with addPrizeConfig
VolumePrizes ==
    Append(DEFAULT_PRIZE_CONFIGS,
           [id |-> "prize_1", name |-> "A", unitCost |-> 20, slots |-> 2,
            stopWhenHit |-> TRUE])

InitVolume ==
    /\ variant = "hook"
    /\ totalSlots = DefaultTotalSlots
    /\ costPerSpin = DefaultCostPerSpin
    /\ defaultPrize = DefaultDefaultPrize
    /\ commissionFee = 0
    /\ prizeConfigs = VolumePrizes
    /\ InitCommon

\* a batch of one spin more than spinMultipleTimes keeps
VolumeBatchSize == BatchHistoryLimit + 1

\* the draws of a batch: its first spin hits Prize X or the default prize, the
\* others the default prize
VolumeBatches ==
    { [i \in 1..VolumeBatchSize |-> IF i = 1 THEN first ELSE totalSlots] :
         first \in {1, totalSlots} }

\* single spins are made on a history of fewer than two entries and on a full one
VolumeSingles ==
    IF Len(spinHistory) < 2 \/ Len(spinHistory) >= HistoryCap THEN {1} ELSE {}

\* the commission is typed before the first spin
VolumeCommissionTexts == IF houseStats.totalSpins = 0 THEN CommissionTexts ELSE {}

\* a break draws its slots in ascending order
LowestUnhit ==
    IF rb.pc = "while"
    THEN {s \in 1..totalSlots :
             /\ ~Includes(rb.breakHitSlots, s)
             /\ \A t \in 1..(s - 1) : Includes(rb.breakHitSlots, t)}
    ELSE {}

\* the mode is switched once spins have been made
VolumeModes ==
    IF houseStats.totalSpins > 0 THEN {"normal", "removeHitSlots"} ELSE {}

\* hit slots are set in the Remove Hit Slots mode
VolumeHitSlots ==
    IF simulationMode = "removeHitSlots" /\ houseStats.totalSpins > 0
    THEN {<<>>, <<1>>} ELSE {}

NextVolume ==
    \/ \E text \in VolumeCommissionTexts : HandleCommissionFeeChange(text)
    \/ \E mode \in VolumeModes : SetSimulationMode(mode)
    \/ \E slots \in VolumeHitSlots : SetHitSlots(slots)
    \/ \E slot \in VolumeSingles : SingleSpin(slot)
    \/ \E draws \in VolumeBatches : SpinMultipleTimes(draws)
    \/ RunBreaksStart(FewBreaksLimit + 1)
    \/ BreakBegin
    \/ RedrawSlot(1)
    \/ \E slot \in LowestUnhit : DrawSlot(slot)
    \/ BreakEnd
    \/ RunBreaksCommit
    \/ ClearHistory

SpecVolume == InitVolume /\ [][NextVolume]_vars

----------------------------------------------------------------------------
(* Properties of the break engine *)

InBreak == rb.pc = "while"

\* the condition of the while loop of the break in progress
BreakContinues ==
    IF variant = "hook" THEN rb.remainingRequiredSlots > 0 ELSE rb.remainingPrizeSlots > 0

\* the slots of the prizes marked Stop When Hit
RequiredSlots(configs) ==
    UNION { Block(configs, i) :
              i \in {j \in 1..Len(configs) :
                        "stopWhenHit" \in DOMAIN configs[j] /\ configs[j].stopWhenHit} }

\* the prizes as the user configured them: the page drops the flags of the record it
\* loaded
ConfiguredPrizes == IF variant = "page" THEN PageSavedPrizes ELSE prizeConfigs

DrawnSlots == {rb.breakHitSlots[i] : i \in 1..Len(rb.breakHitSlots)}

\* C4: while a break of runBreaks is in progress, in the hook and in the page, its
\* list of hit slots holds no slot twice, holds only slots of [1, totalSlots] and
\* so never more than totalSlots of them, and holds exactly the draws made since the
\* break began: it starts empty, whatever the earlier breaks of the call drew.
C4_NoSlotDrawnTwice ==
    InBreak =>
        LET hit == rb.breakHitSlots
            n == Len(rb.history)
        IN  /\ \A i, j \in 1..Len(hit) : i # j => hit[i] # hit[j]
            /\ \A i \in 1..Len(hit) : hit[i] \in 1..totalSlots
            /\ Len(hit) <= totalSlots
            /\ Len(hit) = rb.currentBreakSpins
            /\ Len(hit) <= n
            /\ \A i \in 1..Len(hit) : hit[i] = rb.history[n - Len(hit) + i].result

\* the second break of a call has drawn a slot that its first break drew too
C4_Witness ==
    /\ InBreak
    /\ rb.breakNum = 2
    /\ Len(rb.breakHitSlots) >= 1
    /\ \E k \in 1..(Len(rb.history) - Len(rb.breakHitSlots)) :
          rb.history[k].result = rb.breakHitSlots[1]

\* a break goes on exactly while a slot of a Stop When Hit prize is undrawn, and the
\* draw that ended it was such a slot
BreakEndsAtLastRequired ==
    InBreak =>
        /\ BreakContinues <=> ~(RequiredSlots(ConfiguredPrizes) \subseteq DrawnSlots)
        /\ (~BreakContinues /\ rb.breakHitSlots # <<>>) =>
               rb.breakHitSlots[Len(rb.breakHitSlots)] \in RequiredSlots(ConfiguredPrizes)

\* C5 (as claimed): in every implementation a break ends exactly at the first draw
\* after which every slot of a stopWhenHit=true prize has been drawn: it goes on while
\* one is undrawn, makes no draw once none is, and its final draw is a required slot.
C5_BreakEndsAtLastRequired == BreakEndsAtLastRequired

\* the same for the breaks of useSimulation.runBreaks alone
HookBreakEndsAtLastRequired == variant = "hook" => BreakEndsAtLastRequired

NoStopPrize(configs) ==
    \A i \in 1..Len(configs) :
        ~("stopWhenHit" \in DOMAIN configs[i] /\ configs[i].stopWhenHit)

\* C6 (as claimed): a call of useSimulation.runBreaks on a configuration whose prizes
\* have slots but of which none is stopWhenHit=true fails before its draw loop: when
\* the call is over, houseStats (totalBreaks included) and the spin history are what
\* they were.
C6_NoStopConditionFails ==
    [][ (/\ variant = "hook"
         /\ NoStopPrize(prizeConfigs)
         /\ UsedSlots(prizeConfigs) > 0
         /\ rb.pc # "idle"
         /\ rb'.pc = "idle")
            => (houseStats' = houseStats /\ spinHistory' = spinHistory) ]_vars

\* a step of a runBreaks call other than a redraw of a slot already hit
RunBreaksProgress ==
    \/ BreakBegin
    \/ \E slot \in 1..totalSlots : DrawSlot(slot)
    \/ BreakEnd
    \/ RunBreaksCommit
    \/ PageBreakBegin
    \/ \E slot \in 1..totalSlots : PageDrawSlot(slot)
    \/ PageBreakEnd
    \/ PageRunBreaksCommit

\* C7 (as claimed): a call of runBreaks always returns: every break has made at most
\* totalSlots draws, and as long as the call is not over it has a step to take other
\* than redrawing a slot that is already hit.
C7_RunBreaksReturns ==
    rb.pc # "idle" =>
        /\ InBreak => rb.currentBreakSpins <= totalSlots
        /\ ENABLED RunBreaksProgress

\* the inner loop of runBreaks that looks for a slot not yet hit: the set of its
\* possible outcomes; with no such slot it never leaves the loop
Loops == [kind |-> "loops"]

InlineDrawOutcomes(total, hits) ==
    IF Unhit(total, hits) # {}
    THEN {Returns(s) : s \in Unhit(total, hits)}
    ELSE {Loops}

\* what C8 asks of the outcome of a request for a slot
C8_Outcome(outcome, total, hits) ==
    IF Unhit(total, hits) = {}
    THEN outcome.kind = "throws"
    ELSE outcome.kind = "returns" /\ outcome.slot \in Unhit(total, hits)

\* C8 (as claimed): asked for a slot when every slot of [1, totalSlots] is hit in the
\* current break, the inline loop of runBreaks (which asks while the break goes on)
\* and both getValidRandomSlot helpers fail with an error; otherwise they return a
\* slot of [1, totalSlots] that is not hit.
C8_ExhaustionFails ==
    (InBreak /\ BreakContinues) =>
        /\ \A o \in InlineDrawOutcomes(totalSlots, rb.breakHitSlots) :
              C8_Outcome(o, totalSlots, rb.breakHitSlots)
        /\ \A o \in GetValidRandomSlot(totalSlots, rb.breakHitSlots) :
              C8_Outcome(o, totalSlots, rb.breakHitSlots)
        /\ \A o \in GetValidRandomSlot2(totalSlots, rb.breakHitSlots) :
              C8_Outcome(o, totalSlots, rb.breakHitSlots)

\* the breaks of the log that made at least one spin
Completed == SelectSeq(breakLog, LAMBDA b : b.spins > 0)

\* profit per spin of b1 below that of b2
PerSpinBelow(b1, b2) == b1.profit * b2.spins < b2.profit * b1.spins

FirstMax(log) ==
    log[CHOOSE i \in 1..Len(log) :
            /\ \A j \in 1..Len(log) : ~PerSpinBelow(log[i], log[j])
            /\ \A j \in 1..(i - 1) : PerSpinBelow(log[j], log[i])]

FirstMin(log) ==
    log[CHOOSE i \in 1..Len(log) :
            /\ \A j \in 1..Len(log) : ~PerSpinBelow(log[j], log[i])
            /\ \A j \in 1..(i - 1) : PerSpinBelow(log[i], log[j])]

\* updateBreakPerformance applied to the breaks of the log in turn
RECURSIVE FoldBreaks(_, _, _)
FoldBreaks(stats, log, i) ==
    IF i > Len(log) THEN stats
    ELSE FoldBreaks(UpdateBreakPerformance(stats, log[i].spins, log[i].profit, i),
                    log, i + 1)

\* C9: after any sequence of calls of useSimulation.runBreaks and of the other
\* operations of the hook since the last reset, bestBreak is the first break with at
\* least one spin that attains the greatest profit per spin and worstBreak the first
\* that attains the least (a tie keeps the recorded break; with no such break both
\* are the empty record), and updateBreakPerformance folded over the same breaks
\* from initializeHouseStats() records the same two breaks.
C9_BestWorstFirstExtreme ==
    (variant = "hook" /\ rb.pc = "idle") =>
        IF Completed = <<>>
        THEN /\ houseStats.bestBreak = [spins |-> 0, profit |-> 0]
             /\ houseStats.worstBreak = [spins |-> 0, profit |-> 0]
        ELSE LET folded == FoldBreaks(InitializeHouseStats, breakLog, 1)
             IN  /\ houseStats.bestBreak = FirstMax(Completed)
                 /\ houseStats.worstBreak = FirstMin(Completed)
                 /\ folded.bestBreak = FirstMax(Completed)
                 /\ folded.worstBreak = FirstMin(Completed)

\* two breaks of different lengths with the same profit per spin have been run, and
\* the first of them is the recorded best break
C9_Witness ==
    /\ variant = "hook"
    /\ rb.pc = "idle"
    /\ Len(Completed) = 2
    /\ Completed[1].spins # Completed[2].spins
    /\ ~PerSpinBelow(Completed[1], Completed[2])
    /\ ~PerSpinBelow(Completed[2], Completed[1])
    /\ houseStats.bestBreak = Completed[1]
    /\ houseStats.worstBreak = Completed[1]

\* the break records of a houseStats value
BreakRecords(stats) == Pick(stats, {"bestBreak", "worstBreak", "totalBreaks"})

\* C10 (as claimed): once a break has been recorded, a Normal-mode operation (a step
\* that adds spins without a runBreaks call, in the hook or in the page) leaves
\* bestBreak, worstBreak and totalBreaks as they were, and so does the value that
\* updateHouseStats returns.
C10_NormalModeKeepsBreakRecords ==
    [][ /\ (rb.pc = "idle" /\ rb'.pc = "idle" /\ Completed # <<>>
               /\ houseStats'.totalSpins > houseStats.totalSpins)
            => BreakRecords(houseStats') = BreakRecords(houseStats)
        /\ \A slot \in 1..totalSlots :
              LET hit == DeterminePrizeHit(slot, prizeConfigs, defaultPrize)
                  result == SpinEntry(1, slot, costPerSpin, hit.prize,
                                      costPerSpin - hit.prize, hit.prizeType)
              IN  BreakRecords(UpdateHouseStats(houseStats, result))
                      = BreakRecords(houseStats) ]_vars

----------------------------------------------------------------------------
(* Properties of the totals and of the spin history *)

\* the unit cost of the prize whose block holds the slot, else the default prize
PrizeOfSlot(slot) ==
    IF \E i \in 1..Len(prizeConfigs) : slot \in Block(prizeConfigs, i)
    THEN prizeConfigs[CHOOSE i \in 1..Len(prizeConfigs) :
                         slot \in Block(prizeConfigs, i)].unitCost
    ELSE defaultPrize

\* price - commission - prize of a spin on the slot
HouseProfit(slot) ==
    costPerSpin - (costPerSpin * commissionFee) \div 100 - PrizeOfSlot(slot)

\* sum of the house profits of the spins first..last of a batch
RECURSIVE SumHouseProfit(_, _, _)
SumHouseProfit(draws, first, last) ==
    IF first > last THEN 0
    ELSE IF first = last THEN HouseProfit(draws[first])
    ELSE SumHouseProfit(draws, first, (first + last) \div 2)
         + SumHouseProfit(draws, (first + last) \div 2 + 1, last)

\* C11: spinMultipleTimes(n) raises totalSpins by exactly n and totalEarnings by
\* exactly the sum of price - commission - prize over the n spins it drew, whether
\* or not the batch keeps all of them in the history
C11_BatchTotals ==
    [][\A draws \in VolumeBatches :
          SpinMultipleTimes(draws) =>
             /\ houseStats'.totalSpins = houseStats.totalSpins + Len(draws)
             /\ houseStats'.totalEarnings =
                    houseStats.totalEarnings + SumHouseProfit(draws, 1, Len(draws))]_vars

\* a batch of 101 spins was run with a commission, and kept 100 of them
C11_Witness ==
    /\ rb.pc = "idle"
    /\ commissionFee > 0
    /\ houseStats.totalSpins = VolumeBatchSize
    /\ Len(spinHistory) = BatchHistoryLimit
    /\ spinHistory[1].attempt = 2

\* Object.values(distribution).reduce((a, b) => a + b, 0)
RECURSIVE SumCounts(_)
SumCounts(distribution) ==
    IF DOMAIN distribution = {} THEN 0
    ELSE LET k == CHOOSE j \in DOMAIN distribution : TRUE
         IN  distribution[k]
             + SumCounts([j \in (DOMAIN distribution) \ {k} |-> distribution[j]])

\* C12 (as claimed): between the calls of singleSpin, spinMultipleTimes, runBreaks
\* and clearHistory, totalSpins equals the sum of the counts of prizeDistribution
C12_SpinsMatchDistribution ==
    rb.pc = "idle" => houseStats.totalSpins = SumCounts(houseStats.prizeDistribution)

\* the step drops the k oldest entries of the history and appends to the others
DropsOldest(k) ==
    /\ k < Len(spinHistory) => spinHistory[k + 1] = spinHistory'[1]
    /\ Len(spinHistory') >= Len(spinHistory) - k
    /\ SubSeq(spinHistory, k + 1, Len(spinHistory))
          = SubSeq(spinHistory', 1, Len(spinHistory) - k)
    /\ k > 0 => Len(spinHistory') = HistoryCap

\* C13 (as claimed): after every call of singleSpin, spinMultipleTimes and
\* runBreaks the spin history holds at most 500 entries, and the entries the call
\* dropped are the oldest ones
C13_HistoryCapped ==
    [][(spinHistory' # spinHistory /\ spinHistory' # <<>>) =>
          /\ Len(spinHistory') <= HistoryCap
          /\ \E k \in 0..Len(spinHistory) : DropsOldest(k)]_vars

----------------------------------------------------------------------------
(* Properties of the risk and probability estimates, on the statistics and the      *)
(* configuration of every state the engine reaches                                  *)


\* the averages the hooks pass: null, or totalEarnings / totalSpins
AverageChoices ==
    {NullNumber} \cup (IF houseStats.totalSpins > 0
                       THEN {Frac(houseStats.totalEarnings, houseStats.totalSpins)}
                       ELSE {})

SimulationModes == {"normal", "removeHitSlots"}
FeeChoices == {0, 20}

\* the value of the first variant on the state at hand
RiskOfState(avg, mode, fee) ==
    CalculateShortTermRisk(houseStats, avg, costPerSpin, prizeConfigs, defaultPrize,
                           totalSlots, RemainingSlots, mode, fee)

\* the value of the second variant on the state at hand
RiskOfState2(avg) ==
    CalculateShortTermRisk2(houseStats, avg, costPerSpin, prizeConfigs, defaultPrize,
                            totalSlots, RemainingSlots)

\* C14 (as claimed): with totalEarnings <= 0 both variants of calculateShortTermRisk
\* return exactly 1, in both simulation modes and whatever the other arguments
C14_NegativeEarningsRiskIsOne ==
    houseStats.totalEarnings <= 0 =>
        \A avg \in AverageChoices :
            /\ \A mode \in SimulationModes, fee \in FeeChoices :
                  FracEq(RiskOfState(avg, mode, fee), Whole(1))
            /\ FracEq(RiskOfState2(avg), Whole(1))

\* what a spin can pay out: the unit cost of a prize, or the default prize
Payouts == {prizeConfigs[i].unitCost : i \in 1..Len(prizeConfigs)} \cup {defaultPrize}

\* price - commission - payout >= 0 for every payout, in hundredths
WorstCaseProfitNonNegative(fee) ==
    \A payout \in Payouts :
        100 * costPerSpin - costPerSpin * fee - 100 * payout >= 0

\* C15 (as claimed): when the worst-case profit of a single spin is non-negative,
\* calculateShortTermRisk returns exactly 0, in the first variant's normal mode
\* and in the second variant
C15_NoLossNoRisk ==
    \A avg \in AverageChoices :
        /\ \A fee \in FeeChoices :
              WorstCaseProfitNonNegative(fee) =>
                  FracEq(RiskOfState(avg, "normal", fee), Whole(0))
        /\ WorstCaseProfitNonNegative(commissionFee) =>
              FracEq(RiskOfState2(avg), Whole(0))

\* numbers of breaks, of spins and of slots the function is called with, next to
\* those of the state at hand
BreakCountChoices == 0..(MaxBreaks + 1)
SpinCountChoices == 1..MaxSpins
SlotCountChoices == {totalSlots, totalSlots + 1}

\* the two notions are kept apart by a function of (worstBreakSpins,
\* bestBreakSpins, totalBreaks, totalSlots) on the breaks recorded in the state
KeepsProbabilitiesApart(probabilities(_, _, _, _)) ==
    LET worst == BreakField(houseStats, "worstBreak", "spins")
        best == BreakField(houseStats, "bestBreak", "spins")
    IN  \A breaks \in BreakCountChoices :
           LET p == probabilities(worst, best, breaks, totalSlots)
           IN  /\ worst > 0 => FracEq(p.worstBreakSpinProbability,
                                      FracPow(Frac(1, totalSlots), worst))
               /\ best > 0 => FracEq(p.bestBreakSpinProbability,
                                     FracPow(Frac(1, totalSlots), best))
               /\ \A spins \in SpinCountChoices, slots \in SlotCountChoices :
                     LET q == probabilities(spins, spins, breaks, slots)
                     IN  /\ FracEq(q.worstBreakProbability, p.worstBreakProbability)
                         /\ FracEq(q.bestBreakProbability, p.bestBreakProbability)

\* C16 (as claimed): in both variants of calculateBreakProbabilities the
\* spin-sequence probability of a break of s > 0 spins is (1/totalSlots)^s whatever
\* totalBreaks is, and the break-recurrence probability depends on totalBreaks only
C16_ProbabilitiesKeptApart ==
    rb.pc = "idle" =>
        /\ KeepsProbabilitiesApart(CalculateBreakProbabilities)
        /\ KeepsProbabilitiesApart(CalculateBreakProbabilities2)

\* the second variant alone keeps them apart
SecondVariantKeepsProbabilitiesApart ==
    rb.pc = "idle" => KeepsProbabilitiesApart(CalculateBreakProbabilities2)

----------------------------------------------------------------------------
(* Properties of the service functions on arguments out of their range *)

\* the value stands for a call that threw instead of returning
Failed(outcome) == "kind" \in DOMAIN outcome /\ outcome.kind = "throws"

\* slots next to the wheel but not on it
SlotsOffWheel == {-1, 0, totalSlots + 1}

\* C17 (as claimed): both variants of determinePrizeHit fail with an InvalidSlot
\* error, and return no prize, for a slot <= 0 or a slot > totalSlots
C17_InvalidSlotFails ==
    \A slot \in SlotsOffWheel :
        /\ Failed(DeterminePrizeHit(slot, prizeConfigs, defaultPrize))
        /\ Failed(DeterminePrizeHit2(slot, prizeConfigs, defaultPrize))

\* commission percentages out of [0,100] that keep the commission a whole number
FeesOutOfRange == {-20, 120}
FeesInRange == {0, 20, 100, commissionFee}

\* calculateProfit as the claim has it, on a price, a prize and a percentage
ProfitAsClaimed(profitOf(_, _, _), prize, fee) ==
    IF fee < 0 \/ fee > 100
    THEN Failed(profitOf(costPerSpin, prize, fee))
    ELSE LET result == profitOf(costPerSpin, prize, fee)
         IN  /\ ~Failed(result)
             /\ result.commissionAmount * 100 = costPerSpin * fee
             /\ result.profit = costPerSpin - result.commissionAmount - prize

\* C18 (as claimed): both variants of calculateProfit fail with an
\* InvalidCommission error for a percentage below 0 or above 100, and for one in
\* [0,100] return commissionAmount = price * percentage / 100 and
\* profit = price - commissionAmount - prizeCost
C18_InvalidCommissionFails ==
    \A prize \in Payouts, fee \in FeesOutOfRange \cup FeesInRange :
        /\ ProfitAsClaimed(CalculateProfit, prize, fee)
        /\ ProfitAsClaimed(CalculateProfit2, prize, fee)

\* what holds of both variants: the amounts for a percentage in [0,100], and a
\* commission in the state that the Commission Fee input keeps in [0,100]
ProfitInRange ==
    /\ commissionFee >= 0 /\ commissionFee <= 100
    /\ \A prize \in Payouts, fee \in FeesInRange :
          /\ ProfitAsClaimed(CalculateProfit, prize, fee)
          /\ ProfitAsClaimed(CalculateProfit2, prize, fee)

----------------------------------------------------------------------------
(* Properties of updateHouseStats *)

\* the history entry of a spin on the slot, on the state at hand
SpinResultOf(slot) ==
    LET hitResult == DeterminePrizeHit(slot, prizeConfigs, defaultPrize)
    IN  SpinEntry(Len(spinHistory) + 1, slot, costPerSpin, hitResult.prize,
                  CalculateProfit(costPerSpin, hitResult.prize, commissionFee).profit,
                  hitResult.prizeType)

\* C19 (as claimed): updateHouseStats(stats, result) leaves the stats passed in
\* unchanged in every field and every count of its prizeDistribution, and returns
\* the statistics with the spin counted
C19_UpdateHouseStatsIsPure ==
    \A slot \in 1..totalSlots :
        LET call == UpdateHouseStatsCall(houseStats, SpinResultOf(slot))
        IN  /\ call.stats = houseStats
            /\ call.returned.totalSpins = houseStats.totalSpins + 1
            /\ SumCounts(call.returned.prizeDistribution)
                  = SumCounts(houseStats.prizeDistribution) + 1

\* what holds: the call leaves the numbers of the stats passed in unchanged
UpdateHouseStatsKeepsNumbers ==
    \A slot \in 1..totalSlots :
        LET call == UpdateHouseStatsCall(houseStats, SpinResultOf(slot))
        IN  /\ call.stats.totalEarnings = houseStats.totalEarnings
            /\ call.stats.totalSpins = houseStats.totalSpins

----------------------------------------------------------------------------
(* Properties of the prize ids *)

DistinctIds(configs) ==
    \A i, j \in 1..Len(configs) : i # j => configs[i].id # configs[j].id

\* C20 (as claimed): in every state reached by adding, removing, resetting and
\* loading prizes, the ids of the listed prizes are pairwise distinct, so that
\* removePrizeConfig(id) removes exactly one prize
C20_UniqueIds ==
    /\ DistinctIds(prizeConfigs)
    /\ \A i \in 1..Len(prizeConfigs) :
          Len(FilterOutId(prizeConfigs, prizeConfigs[i].id)) = Len(prizeConfigs) - 1

----------------------------------------------------------------------------
(* The normal-mode estimate of the first calculateShortTermRisk, against the  *)
(* formula pWorst ^ hitsToNegative                                            *)

\* default prizes the estimate is asked about: the configured one, and one that
\* is dearer than the spin and than every prize
DefaultPrizeChoices == {defaultPrize, 60}

\* the dearest payout of the wheel, with the given default prize
WorstPayout(dflt) ==
    CHOOSE p \in {prizeConfigs[i].unitCost : i \in 1..Len(prizeConfigs)} \cup {dflt} :
        \A q \in {prizeConfigs[i].unitCost : i \in 1..Len(prizeConfigs)} \cup {dflt} : q <= p

\* the slots occupied by the prize that pays the given amount: those of the named
\* prize with that unit cost and, when there is none and the default prize pays
\* it, the slots that the named prizes leave uncovered
SlotsOccupiedBy(payout, dflt) ==
    IF \E i \in 1..Len(prizeConfigs) : prizeConfigs[i].unitCost = payout
    THEN prizeConfigs[CHOOSE i \in 1..Len(prizeConfigs) :
                         /\ prizeConfigs[i].unitCost = payout
                         /\ \A j \in 1..(i - 1) : prizeConfigs[j].unitCost # payout].slots
    ELSE IF payout = dflt THEN RemainingSlots ELSE 0

\* price - commission - payout, in hundredths
WorstCaseProfitHundredths(dflt, fee) ==
    100 * costPerSpin - costPerSpin * fee - 100 * WorstPayout(dflt)

\* C21 (as claimed): in normal mode, with totalEarnings > 0 and a negative
\* worst-case profit, calculateShortTermRisk returns pWorst ^ hitsToNegative with
\* hitsToNegative = ceil(totalEarnings / |worstCaseProfit|) and pWorst = (slots
\* occupied by the worst-case prize) / totalSlots, the default prize occupying
\* the slots not covered by named prizes
C21_NormalRiskIsPowerOfWorstShare ==
    \A dflt \in DefaultPrizeChoices, fee \in FeeChoices :
        (houseStats.totalEarnings > 0 /\ WorstCaseProfitHundredths(dflt, fee) < 0) =>
            LET hitsToNegative ==
                    FracCeil(Frac(100 * houseStats.totalEarnings,
                                  -WorstCaseProfitHundredths(dflt, fee)))
                pWorst == Frac(SlotsOccupiedBy(WorstPayout(dflt), dflt), totalSlots)
            IN  FracEq(CalculateShortTermRisk(houseStats, NullNumber, costPerSpin,
                                              prizeConfigs, dflt, totalSlots,
                                              RemainingSlots, "normal", fee),
                       FracPow(pWorst, hitsToNegative))

----------------------------------------------------------------------------
(* The shortTermRisk that the hook's handlers store in houseStats.  The handlers   *)
(* call calculateShortTermRisk with seven arguments; simulationService.ts holds    *)
(* two functions of that name, and the stored value is given for either.           *)

\* the two calculateShortTermRisk of simulationService.ts
Services == {"first", "second"}

\* calculateShortTermRisk(stats, avgProfitPerSpin, costPerSpin, prizeConfigs,
\* defaultPrize, totalSlots, remainingSlots): the first variant takes its defaults
\* simulationMode = 'normal' and commissionFee = 0
ShortTermRiskCall(service, stats, avgProfitPerSpin) ==
    IF service = "first"
    THEN CalculateShortTermRisk(stats, avgProfitPerSpin, costPerSpin, prizeConfigs,
                                defaultPrize, totalSlots, RemainingSlots, "normal", 0)
    ELSE CalculateShortTermRisk2(stats, avgProfitPerSpin, costPerSpin, prizeConfigs,
                                 defaultPrize, totalSlots, RemainingSlots)

\* singleSpin: avgProfitPerSpin = newTotalEarnings / newTotalSpins
SingleSpinAverage(prev, currentSpinResult) ==
    LET stored == SingleSpinStats(prev, currentSpinResult)
    IN  Frac(stored.totalEarnings, stored.totalSpins)

\* singleSpin: updatedShortTermRisk, computed in the updater from prev
SingleSpinRisk(service, prev, currentSpinResult) ==
    ShortTermRiskCall(service, prev, SingleSpinAverage(prev, currentSpinResult))

\* spinMultipleTimes: avgProfitPerSpin
SpinMultipleTimesAverage(draws) ==
    LET totalSpinsCount == houseStats.totalSpins + Len(draws)
        houseEarnings == SpinMultipleTimesLocals(draws).houseEarnings
    IN  IF totalSpinsCount > 0 THEN Frac(houseEarnings, totalSpinsCount) ELSE NullNumber

\* spinMultipleTimes: updatedShortTermRisk, computed from the handler's houseStats
SpinMultipleTimesRisk(service, draws) ==
    ShortTermRiskCall(service, houseStats, SpinMultipleTimesAverage(draws))

\* runBreaks: the average it passes to calculateShortTermRisk
RunBreaksAverage ==
    IF houseStats.totalSpins > 0
    THEN Frac(rb.houseEarnings, houseStats.totalSpins + Len(rb.history))
    ELSE NullNumber

\* runBreaks: shortTermRisk, computed after the for loop from the handler's houseStats
RunBreaksRisk(service) == ShortTermRiskCall(service, houseStats, RunBreaksAverage)

\* runBreaks has left its for loop and is about to store its statistics
RunBreaksReturning == variant = "hook" /\ rb.pc = "for" /\ rb.breakNum > rb.breakCount

\* a handler of the hook can be called
HookIdle == variant = "hook" /\ rb.pc = "idle"

\* the batches of the wheel at hand
BatchChoices == IF totalSlots = DefaultTotalSlots THEN VolumeBatches ELSE Draws

\* the estimate of the given mode with the configured commission, on the given
\* statistics
ModeEstimate(stats, mode) ==
    CalculateShortTermRisk(stats, NullNumber, costPerSpin, prizeConfigs, defaultPrize,
                           totalSlots, RemainingSlots, mode, commissionFee)

\* C22 (as claimed): the shortTermRisk that runBreaks stores is the estimate of the
\* Remove-Hit-Slots mode (stopWhenHit prizes, configured commission), and the one
\* that singleSpin and spinMultipleTimes store is the estimate of the normal mode
\* with the configured commission (on the statistics before or after the call),
\* for one at least of the two calculateShortTermRisk
C22_RiskModeFollowsOperation ==
    \E service \in Services :
        /\ RunBreaksReturning =>
              \E stats \in {houseStats, RunBreaksStats(houseStats)} :
                  FracEq(RunBreaksRisk(service), ModeEstimate(stats, "removeHitSlots"))
        /\ HookIdle =>
              /\ \A slot \in 1..totalSlots :
                    \E stats \in {houseStats, SingleSpinStats(houseStats, slot)} :
                        FracEq(SingleSpinRisk(service, houseStats, slot),
                               ModeEstimate(stats, "normal"))
              /\ \A draws \in BatchChoices :
                    \E stats \in {houseStats, SpinMultipleTimesStats(houseStats, draws)} :
                        FracEq(SpinMultipleTimesRisk(service, draws),
                               ModeEstimate(stats, "normal"))

----------------------------------------------------------------------------
(* Loading a stored configuration: the three loaders of the repository *)

\* configurationService.loadConfiguration of src/lib/services: the prize records
\* of the response are returned as they are stored
ServiceLoadedPrize(prize) == prize

\* the prize that each loader makes of a stored prize record
LoadedPrizes(prize, index) ==
    {FormatPrize(prize, index, clock) : clock \in ClockChoices}
        \cup {PageFormatPrize(prize, index), ServiceLoadedPrize(prize)}

\* the loaded prize has the stored unitCost when the record has one, else the
\* stored legacy value, and a stopWhenHit of true when the record has none
LoadedAsStored(prize, loaded) ==
    /\ "unitCost" \in DOMAIN loaded
    /\ loaded.unitCost = IF "unitCost" \in DOMAIN prize THEN prize.unitCost
                         ELSE IF "value" \in DOMAIN prize THEN prize.value
                         ELSE 0
    /\ "stopWhenHit" \notin DOMAIN prize =>
          "stopWhenHit" \in DOMAIN loaded /\ loaded.stopWhenHit = TRUE

\* the hook's loader has left the prizes of the given response in the list
HookLoaded(response) ==
    /\ response.ok
    /\ variant = "hook"
    /\ \E clock \in ClockChoices :
          prizeConfigs = [i \in 1..Len(response.prizeConfigs) |->
                             FormatPrize(response.prizeConfigs[i], i - 1, clock)]

\* C23 (as claimed): every loader accepts both field variants: the unitCost of a
\* loaded prize is the stored unitCost when the record has one (a stored 0
\* included) and otherwise the stored legacy value, and stopWhenHit is true when
\* the record has none; so for the prizes that a load has left in the list, and
\* for what the other loaders make of the same stored record
C23_LoadAcceptsBothVariants ==
    \A response \in StoredChoices :
        HookLoaded(response) =>
            \A i \in 1..Len(response.prizeConfigs) :
                /\ LoadedAsStored(response.prizeConfigs[i], prizeConfigs[i])
                /\ \A loaded \in LoadedPrizes(response.prizeConfigs[i], i - 1) :
                      LoadedAsStored(response.prizeConfigs[i], loaded)

----------------------------------------------------------------------------
(* totalBreaks against the breaks that ran *)

\* the breaks run since the last reset that drew at least one slot and ran to the
\* end of their loop
CompletedBreaks == Len(Completed)

\* C24 (as claimed): totalBreaks counts only completed breaks: once runBreaks has
\* returned, totalBreaks is the number of breaks that ran to their terminal
\* condition with at least one spin; a break that was skipped (no prize slots) or
\* that made no draw (no stopWhenHit prize) is not counted
C24_TotalBreaksCountsCompleted ==
    HookIdle => houseStats.totalBreaks = CompletedBreaks

----------------------------------------------------------------------------
(* clearHistory *)

\* the simulation is as it was after construction
SimulationReset ==
    /\ houseStats = InitialHouseStats
    /\ spinHistory = <<>>
    /\ hitSlots = <<>>
    /\ simulationStats = NullStats

\* C25: clearHistory is a full reset of the simulation and of nothing else: it
\* leaves houseStats at its initial value, the spin history and the hit slots
\* empty and simulationStats null, and leaves totalSlots, the price, the default
\* prize, the commission, the simulation mode and the prize list as they were; a
\* second call changes nothing more
C25_ClearHistoryResetsSimulationOnly ==
    /\ [][ClearHistory =>
            /\ SimulationReset'
            /\ UNCHANGED <<totalSlots, costPerSpin, defaultPrize, commissionFee,
                           simulationMode, prizeConfigs>>]_vars
    /\ [](SimulationReset /\ breakLog = <<>> => ~ENABLED (ClearHistory /\ vars' # vars))

\* the statistics are back at their initial value in the Remove Hit Slots mode and
\* with a commission: the mode is only switched after spins were made, so the
\* history was cleared since
C25_Witness ==
    /\ HookIdle
    /\ SimulationReset
    /\ simulationMode = "removeHitSlots"
    /\ commissionFee > 0
    /\ prizeConfigs = VolumePrizes

----------------------------------------------------------------------------
(* Attempt numbers of the retained history *)

\* C26 (as claimed): in every state reached by singleSpin, spinMultipleTimes and
\* runBreaks, also after the history was cut or a batch kept only a part of its
\* spins, the attempt numbers of the retained history increase strictly from the
\* oldest entry to the newest
C26_AttemptsStrictlyIncreasing ==
    \A i \in 1..(Len(spinHistory) - 1) :
        spinHistory[i].attempt < spinHistory[i + 1].attempt

----------------------------------------------------------------------------
(* The statistics on which the stored shortTermRisk is evaluated *)

\* the stored risk is the risk of the statistics stored with it, and is 1 when
\* these hold earnings of 0 or less
RiskOfStored(service, risk, stored, avgProfitPerSpin) ==
    /\ FracEq(risk, ShortTermRiskCall(service, stored, avgProfitPerSpin))
    /\ stored.totalEarnings <= 0 => FracEq(risk, Whole(1))

\* C27 (as claimed): the shortTermRisk that singleSpin, spinMultipleTimes and
\* runBreaks store in houseStats is the risk evaluated on the statistics that the
\* same call stores (its totalEarnings, its best and worst break), and is 1
\* whenever the call leaves totalEarnings <= 0; for one at least of the two
\* calculateShortTermRisk
C27_RiskOfStoredStatistics ==
    \E service \in Services :
        /\ RunBreaksReturning =>
              RiskOfStored(service, RunBreaksRisk(service), RunBreaksStats(houseStats),
                           RunBreaksAverage)
        /\ HookIdle =>
              /\ \A slot \in 1..totalSlots :
                    RiskOfStored(service, SingleSpinRisk(service, houseStats, slot),
                                 SingleSpinStats(houseStats, slot),
                                 SingleSpinAverage(houseStats, slot))
              /\ \A draws \in BatchChoices :
                    RiskOfStored(service, SpinMultipleTimesRisk(service, draws),
                                 SpinMultipleTimesStats(houseStats, draws),
                                 SpinMultipleTimesAverage(draws))

----------------------------------------------------------------------------
(* The profit that a batch of spins reports *)

\* C28 (as claimed): after spinMultipleTimes(n), in the hook and in the page,
\* simulationStats.finalProfit is the house profit of the batch: the sum of the
\* profits of the n spins drawn, which is the amount by which totalEarnings changed
C28_FinalProfitIsBatchProfit ==
    [][\A draws \in BatchChoices :
          (SpinMultipleTimes(draws) \/ PageSpinMultipleTimes(draws)) =>
              simulationStats'.finalProfit =
                  houseStats'.totalEarnings - houseStats.totalEarnings]_vars

----------------------------------------------------------------------------
(* Handlers of the hook called again before the component has rendered: each      *)
(* handler reads houseStats and spinHistory of the render it was created in,       *)
(* while the updaters it passes to setHouseStats and setSpinHistory are applied,    *)
(* in the order of the calls, to the value the updaters before them returned        *)

\* the value that the next updater is applied to
PendingStats == IF pending.updates = 0 THEN houseStats ELSE pending.houseStats
PendingHistory == IF pending.updates = 0 THEN spinHistory ELSE pending.spinHistory
PendingResult == IF pending.updates = 0 THEN simulationStats ELSE pending.simulationStats
\* the slots drawn by the handlers called since the last render, in order
PendingDraws == IF pending.updates = 0 THEN <<>> ELSE pending.draws

\* useSimulation.spinMultipleTimes, its state updates queued
QueueSpinMultipleTimes(draws) ==
    /\ rb.pc = "idle"
    /\ variant = "hook"
    /\ PendingStats.totalSpins + Len(draws) <= SpinBound
    /\ pending' = [updates |-> pending.updates + 1,
                   simulationStats |-> SpinMultipleTimesResult(draws),
                   spinHistory |-> CombineHistory(PendingHistory,
                                                  SpinMultipleTimesLocals(draws).history),
                   houseStats |-> SpinMultipleTimesStats(PendingStats, draws),
                   draws |-> PendingDraws \o draws]
    /\ UNCHANGED <<variant, configVars, inputVars, error, ret, houseStats, spinHistory,
                   rb, breakLog, simulationStats, simulationMode, hitSlots>>

\* useSimulation.runBreaks after its for loop, its state updates queued
QueueRunBreaks ==
    /\ rb.pc = "for"
    /\ variant = "hook"
    /\ rb.breakNum > rb.breakCount
    /\ pending' = [updates |-> pending.updates + 1,
                   simulationStats |-> PendingResult,
                   spinHistory |-> CombineHistory(PendingHistory, rb.history),
                   houseStats |-> RunBreaksStats(PendingStats),
                   draws |-> PendingDraws
                                \o [i \in 1..Len(rb.history) |-> rb.history[i].result]]
    /\ rb' = IdleFrame
    /\ UNCHANGED <<variant, configVars, inputVars, error, ret, houseStats, spinHistory,
                   breakLog, simulationStats, simulationMode, hitSlots>>

\* the component renders: the queued updates become the state that handlers read
Render ==
    /\ rb.pc = "idle"
    /\ pending.updates > 0
    /\ houseStats' = pending.houseStats
    /\ spinHistory' = pending.spinHistory
    /\ simulationStats' = pending.simulationStats
    /\ pending' = NothingPending
    /\ UNCHANGED <<variant, configVars, inputVars, error, ret, rb, breakLog,
                   simulationMode, hitSlots>>

InitStale == InitSim /\ variant = "hook"

NextStale ==
    \/ \E draws \in Draws : QueueSpinMultipleTimes(draws)
    \/ \E breakCount \in 1..MaxBreaks : RunBreaksStart(breakCount)
    \/ BreakBegin
    \/ \E slot \in 1..totalSlots : RedrawSlot(slot)
    \/ \E slot \in 1..totalSlots : DrawSlot(slot)
    \/ BreakEnd
    \/ QueueRunBreaks
    \/ Render

SpecStale == InitStale /\ [][NextStale]_vars

\* the distribution after counting the prize types of the draws i.. of a sequence
RECURSIVE CountDraws(_, _, _)
CountDraws(distribution, draws, i) ==
    IF i > Len(draws) THEN distribution
    ELSE CountDraws(CountHit(distribution,
                             DeterminePrizeHit(draws[i], prizeConfigs,
                                               defaultPrize).prizeType),
                    draws, i + 1)

\* C29 (as claimed): when two calls of spinMultipleTimes or runBreaks were made on
\* the same rendered houseStats, the houseStats committed by the next render counts
\* both: totalSpins has grown by the number of their draws, totalEarnings by the
\* summed profit of these draws, and prizeDistribution by their prize types
C29_StaleCallsAllCounted ==
    [][Render /\ pending.updates >= 2 =>
          /\ houseStats'.totalSpins = houseStats.totalSpins + Len(pending.draws)
          /\ houseStats'.totalEarnings =
                 houseStats.totalEarnings
                     + SumHouseProfit(pending.draws, 1, Len(pending.draws))
          /\ houseStats'.prizeDistribution =
                 CountDraws(houseStats.prizeDistribution, pending.draws, 1)]_vars

----------------------------------------------------------------------------
(* The prize form *)

\* C30 (as claimed): submitting the prize form with a valid name, value and slots
\* that fit the remaining slots appends exactly one prize, which carries the
\* submitted name, value and slots, and the submission is not answered with the
\* error of an empty name
C30_SubmissionAppendsSubmitted ==
    [][\A name \in NameChoices, value \in ValueChoices, slots \in SlotChoices,
          clock \in ClockChoices :
          HandleSubmit(name, value, slots, clock)
              /\ ValidatePrizeConfig(name, value, slots, RemainingSlots) =>
                 /\ Len(prizeConfigs') = Len(prizeConfigs) + 1
                 /\ prizeConfigs'[Len(prizeConfigs')].name = name
                 /\ prizeConfigs'[Len(prizeConfigs')].unitCost = value
                 /\ prizeConfigs'[Len(prizeConfigs')].slots = slots
                 /\ error' # "Prize name cannot be empty"]_vars

====
